---- MODULE Spec2Model ----
(***************************************************************************)
(* Model of the multi-source market-data aggregation core of               *)
(* dashboard-indicator-3.0:                                                *)
(*   - the TTL cache behind services/cache_service.py (CacheService) and   *)
(*     the module-level cache of services/services/market_data.py;         *)
(*   - the fallback-mode provider chain, get_market_data(symbol);          *)
(*   - the consensus-mode realtime fetch, MarketDataService                *)
(*     .get_realtime_data, with its six provider adapters;                 *)
(*   - the HTTP handlers api_get_data and api_refresh of app.py.           *)
(*                                                                         *)
(* Python values are tagged records: None is [t |-> "None"], a number n is *)
(* [t |-> "num", v |-> n], a string is [t |-> "str", ...].  Time is a      *)
(* discrete clock `now`; one tick stands for one unit of the timer.        *)
(***************************************************************************)
EXTENDS Integers, Sequences, FiniteSets, TLC

VARIABLES
    now,        \* the timer read by both TTL caches (time.monotonic)
    store,      \* CacheService.cache: links of the TTLCache, least recently used first
    cs,         \* the CacheService operation the latest step performed, and its result
    lastSet,    \* history: per key, the latest set not yet cleared or evicted
    PROVIDER_RETRY_ATTEMPTS,  \* Config.PROVIDER_RETRY_ATTEMPTS, read from the environment
    cache,      \* market_data.py: the module-level TTLCache of get_market_data
    fpc,        \* get_market_data: "idle", "attempt" (inside the loops) or "done"
    fsymbol,    \* get_market_data: the symbol asked for
    fprov,      \* get_market_data: index in the provider chain of the provider in turn
    fattempt,   \* get_market_data: the value of `attempt` in the inner loop
    flog,       \* history: the provider.fetch calls of this call, in order, each
                \* with the time.sleep that followed it (0 when there was none)
    fresult,    \* get_market_data: how the call ended
    response,   \* app.py: the HTTP response of the latest request, and how it came about
    upstream,   \* history: per cache key, when its data was last fetched upstream since
                \* the latest clear, and what the latest request fetched again too early
    api_keys,   \* MarketDataService.api_keys: the providers whose key the environment sets
    rpc,        \* get_realtime_data: "idle", "query" (inside the loop) or "done"
    rcoin,      \* get_realtime_data: coin_id
    rprov,      \* get_realtime_data: index in self.providers of the provider in turn
    observations, \* get_realtime_data: the rows appended to the four lists, in order
    rlog,       \* history: what each provider call of this request returned, in order
    reported,   \* history: the fields some body turned into a row held a number for
    rresult,    \* get_realtime_data: what the call returned
    raw_ohlc,   \* app.py get_market_data: the rows of get_coin_ohlc_by_id
    raw_market, \* app.py get_market_data: total_volumes and market_caps of the chart call
    req_days,   \* app.py get_market_data: the argument `days`
    joined,     \* history: df after the two inner joins, before the resampling
    df,         \* app.py get_market_data: the frame of the MarketData returned
    bpc,        \* app.py get_market_data: "start" or "done"
    close,      \* calculate_signals: df['close'], the column the indicators read
    signals,    \* api_get_data: the series calculate_signals returned
    formatted_signals, \* format_market_response: per indicator, timestamp -> value
    spc,        \* api_get_data: "start", "signals" or "formatted"
    snapshot,   \* history: the snapshot the latest miss of get_realtime_data stored,
                \* when, and whether the cache was cleared or the entry evicted since
    reqs,       \* get_market_data: the position and the locals of each concurrent call
    produced,   \* history: per symbol, the entries built from a fetch for that symbol
    outbound    \* the outbound call in progress, and how it ended

(***************************************************************************)
(* Bounds of the model.                                                    *)
(***************************************************************************)
\* capacity of the CacheService TTLCache, scaled down from maxsize=100
MaxSize == 2
\* time-to-live of a cache entry of either cache in clock ticks, scaled
\* down from seconds (CacheService ttl, Config.CACHE_TTL_SECONDS)
TTL == 2

\* the clock stops after an entry set at tick 1 has expired
MaxTime == TTL + 2
\* cache_key = f"market_data_{coin_id}_{days}"
MarketDataKey(coin_id, days) == <<"market_data", coin_id, days>>
\* cache_key = f"consensus_realtime_{coin_id}"
RealtimeKey(coin_id) == <<"consensus_realtime", coin_id>>
\* the keys the application stores under, for one coin and one range
Keys == {<<"supported_coins">>, MarketDataKey("bitcoin", 30), RealtimeKey("bitcoin")}
\* the values a client stores
Vals == {1, 2}

(***************************************************************************)
(* Python values.                                                          *)
(***************************************************************************)
None == [t |-> "None"]
Num(n) == [t |-> "num", v |-> n]
\* a JSON string that spells the number n
Str(n) == [t |-> "str", v |-> n]
\* a JSON string that is not empty and spells no number
Text == [t |-> "text"]
\* the empty JSON string
EmptyStr == [t |-> "empty"]
\* a key that the JSON object does not have
Missing == [t |-> "missing"]
\* an exception leaving the expression
Raise == [t |-> "raise"]

\* dict.get(key, default) on the value found under the key
DictGet(raw, default) == IF raw = Missing THEN default ELSE raw

\* float(x): a number or a numeric string converts, anything else raises
PyFloat(x) == IF x.t \in {"num", "str"} THEN Num(x.v) ELSE Raise

\* bool(x) of a JSON leaf: None, 0 and "" are false
Truthy(x) ==
    CASE x.t \in {"None", "missing", "empty"} -> FALSE
      [] x.t = "num" -> x.v # 0
      [] OTHER -> TRUE

(***************************************************************************)
(* cachetools.TTLCache, as CacheService and market_data.py use it.  A      *)
(* cache is the sequence of its links [key, value, expires] in the order   *)
(* of the links dictionary: least recently used first.                     *)
(***************************************************************************)
RECURSIVE SelectLinks(_, _, _)
\* the links of c whose index satisfies keep, in order
SelectLinks(c, i, keep) ==
    IF i > Len(c) THEN <<>>
    ELSE (IF keep[i] THEN <<c[i]>> ELSE <<>>) \o SelectLinks(c, i + 1, keep)

LinkKeys(c) == {c[i].key : i \in 1 .. Len(c)}

LinkOf(c, k) == c[CHOOSE i \in 1 .. Len(c) : c[i].key = k]

\* TTLCache.expire(time): drop every link with not (time < expires)
Expire(c, t) == SelectLinks(c, 1, [i \in 1 .. Len(c) |-> t < c[i].expires])

Without(c, k) == SelectLinks(c, 1, [i \in 1 .. Len(c) |-> c[i].key # k])

\* TTLCache.__contains__: the link exists and timer() < link.expires
TTLContains(c, k, t) == k \in LinkKeys(c) /\ t < LinkOf(c, k).expires

\* Cache.get(key, default=None): self[key] if key in self else default
TTLGetValue(c, k, t) == IF TTLContains(c, k, t) THEN LinkOf(c, k).value ELSE None

\* the cache after Cache.get: __getitem__ moves the link of a live key to
\* the end of the links dictionary; a miss changes nothing, an expired
\* link stays where it is
TTLGetStore(c, k, t) ==
    IF TTLContains(c, k, t) THEN Without(c, k) \o <<LinkOf(c, k)>> ELSE c

\* the key Cache.__setitem__ pops to make room: after expire(time), a new
\* key into a full cache pops the first (least recently used) link
TTLEvicted(c, k, t, maxsize) ==
    LET live == Expire(c, t)
    IN  IF k \notin LinkKeys(live) /\ Len(live) + 1 > maxsize
        THEN {live[1].key} ELSE {}

\* a set that leaves the value already stored under a live key in place
TTLSetItem_KeepOld(c, k, v, t, ttl, maxsize) ==
    LET live == Expire(c, t)
        room == IF k \notin LinkKeys(live) /\ Len(live) + 1 > maxsize
                THEN Tail(live) ELSE live
        kept == IF k \in LinkKeys(room) THEN LinkOf(room, k).value ELSE v
    IN  Without(room, k) \o <<[key |-> k, value |-> kept, expires |-> t + ttl]>>

\* TTLCache.__setitem__: expire, make room, store, relink at the end with
\* expires = time + ttl
TTLSetItem(c, k, v, t, ttl, maxsize) ==
    LET live == Expire(c, t)
        room == IF k \notin LinkKeys(live) /\ Len(live) + 1 > maxsize
                THEN Tail(live) ELSE live
    IN  Without(room, k) \o <<[key |-> k, value |-> v, expires |-> t + ttl]>>

\* TTLCache.clear(): pop every item
TTLClear(c) == <<>>

cacheVars == <<store, cs, lastSet>>
fbVars == <<PROVIDER_RETRY_ATTEMPTS, cache, fpc, fsymbol, fprov, fattempt, flog, fresult>>
appVars == <<response, upstream>>
rtVars == <<api_keys, rpc, rcoin, rprov, observations, rlog, reported, rresult>>
builderVars == <<raw_ohlc, raw_market, req_days, joined, df, bpc>>
signalVars == <<close, signals, formatted_signals, spc>>
concVars == <<reqs, produced>>
auxVars == <<concVars, outbound>>
nonCacheVars == <<fbVars, appVars, rtVars, builderVars, signalVars, auxVars>>
vars == <<now, cacheVars, fbVars, appVars, rtVars, builderVars, signalVars, snapshot, auxVars>>

(***************************************************************************)
(* CacheService (services/cache_service.py).                               *)
(***************************************************************************)
NoSet == [set |-> FALSE]

\* no snapshot stored since the start or the latest clear
NoSnapshot == [set |-> FALSE]

\* the history of the snapshot after a set of key k: a set that pops the
\* least recently used link to make room may pop the link of the snapshot
SnapshotAfterSet(k) ==
    IF snapshot.set /\ snapshot.key \in TTLEvicted(store, k, now, MaxSize)
    THEN [snapshot EXCEPT !.evicted = TRUE] ELSE snapshot

NoOp == [op |-> "none", key |-> <<>>, value |-> None, ret |-> None]

\* CacheService.get(key)
CacheGet(k) ==
    /\ store' = TTLGetStore(store, k, now)
    /\ cs' = [op |-> "get", key |-> k, value |-> None,
              ret |-> TTLGetValue(store, k, now)]
    /\ UNCHANGED <<now, lastSet, nonCacheVars, snapshot>>

\* CacheService.set(key, value)
CacheSet(k, v) ==
    /\ store' = TTLSetItem(store, k, v, now, TTL, MaxSize)
    /\ cs' = [op |-> "set", key |-> k, value |-> v, ret |-> None]
    /\ lastSet' = [j \in Keys |->
                     IF j = k THEN [set |-> TRUE, value |-> v, at |-> now]
                     ELSE IF j \in TTLEvicted(store, k, now, MaxSize) THEN NoSet
                     ELSE lastSet[j]]
    /\ snapshot' = SnapshotAfterSet(k)
    /\ UNCHANGED <<now, nonCacheVars>>

\* CacheService.clear_all()
CacheClearAll ==
    /\ store' = TTLClear(store)
    /\ cs' = [op |-> "clear_all", key |-> <<>>, value |-> None, ret |-> None]
    /\ lastSet' = [j \in Keys |-> NoSet]
    /\ snapshot' = NoSnapshot
    /\ UNCHANGED <<now, nonCacheVars>>

\* the timer advances between operations; cs describes the operation that
\* returned at the current instant, so it is reset
Tick ==
    /\ now < MaxTime
    /\ now' = now + 1
    /\ cs' = NoOp
    /\ UNCHANGED <<store, lastSet, nonCacheVars, snapshot>>

Get == \E k \in Keys : CacheGet(k)

Set == \E k \in Keys, v \in Vals : CacheSet(k, Num(v))


(***************************************************************************)
(* Fallback mode (services/services/market_data.py).                       *)
(***************************************************************************)
\* the upper end of the retry counts the environment is given
MaxRetry == 3
\* maxsize of the module-level cache
ModuleMaxSize == 1000

Symbols == {"bitcoin"}

\* get_provider_chain(): the providers in priority order
ProviderChain ==
    <<"CoinGecko", "CoinCap", "CoinLore", "CoinPaprika", "CryptoCompare", "CoinMarketCap">>

\* what one outbound requests.get can come back with: an exception of the
\* transport (timeout, connection error), a non-success status, a body that
\* is not the expected JSON, or a JSON body with these leaves
FbLeafPrices == {Missing, None, Num(0), Num(10), Text}
FbLeafOthers == {Missing, Text}
FbResponses ==
    {[kind |-> "error"], [kind |-> "status"], [kind |-> "notjson"]}
    \cup {[kind |-> "body", price |-> p, market_cap |-> m, volume_24h |-> m] :
            p \in FbLeafPrices, m \in FbLeafOthers}

\* the fetch of CoinGecko, CryptoCompare and CoinMarketCap: the leaves are
\* passed on as found (.get without default), any exception gives None
PassThroughFetch(name, resp) ==
    IF resp.kind # "body" THEN None
    ELSE [t |-> "dict",
          price |-> DictGet(resp.price, None),
          market_cap |-> DictGet(resp.market_cap, None),
          volume_24h |-> DictGet(resp.volume_24h, None),
          provider |-> name]

\* the fetch of CoinCap, CoinLore and CoinPaprika: float(data.get(key, 0))
\* on every leaf, any exception gives None
FloatFetch(name, resp) ==
    IF resp.kind # "body" THEN None
    ELSE LET p == PyFloat(DictGet(resp.price, Num(0)))
             m == PyFloat(DictGet(resp.market_cap, Num(0)))
             v == PyFloat(DictGet(resp.volume_24h, Num(0)))
         IN  IF Raise \in {p, m, v} THEN None
             ELSE [t |-> "dict", price |-> p, market_cap |-> m,
                   volume_24h |-> v, provider |-> name]

CoinGeckoProvider_fetch(resp) == PassThroughFetch("CoinGecko", resp)
CoinCapProvider_fetch(resp) == FloatFetch("CoinCap", resp)
CoinLoreProvider_fetch(resp) == FloatFetch("CoinLore", resp)
CoinPaprikaProvider_fetch(resp) == FloatFetch("CoinPaprika", resp)
CryptoCompareProvider_fetch(resp) == PassThroughFetch("CryptoCompare", resp)
CoinMarketCapProvider_fetch(resp) == PassThroughFetch("CoinMarketCap", resp)

\* provider.fetch(symbol) of the i-th provider of the chain; every fetch
\* catches Exception, so the call itself never raises
ProviderFetch(i, resp) ==
    CASE ProviderChain[i] = "CoinGecko" -> CoinGeckoProvider_fetch(resp)
      [] ProviderChain[i] = "CoinCap" -> CoinCapProvider_fetch(resp)
      [] ProviderChain[i] = "CoinLore" -> CoinLoreProvider_fetch(resp)
      [] ProviderChain[i] = "CoinPaprika" -> CoinPaprikaProvider_fetch(resp)
      [] ProviderChain[i] = "CryptoCompare" -> CryptoCompareProvider_fetch(resp)
      [] ProviderChain[i] = "CoinMarketCap" -> CoinMarketCapProvider_fetch(resp)

\* the providers get_provider_chain builds with api_key=Config.<NAME>_API_KEY,
\* and the environment variable each key is read from
CredentialOf ==
    ("CoinPaprika" :> "coinpaprika") @@ ("CryptoCompare" :> "cryptocompare")
        @@ ("CoinMarketCap" :> "coinmarketcap")

\* cache_key = f"{symbol}:market_data"
FbCacheKey(symbol) == <<symbol, "market_data">>

\* a test that accepts any result, whatever its price
Usable_AnyResult(result) == result # None

\* `result and result["price"] is not None`
Usable(result) == result # None /\ result.price # None

\* an entry that loses the name of the provider that produced it
CacheEntry_Untagged(result, t) ==
    [result EXCEPT !.t = "entry", !.provider = ""] @@ [timestamp |-> t]

\* {**result, "timestamp": time.time()}: the value stored under the key
CacheEntry(result, t) == [result EXCEPT !.t = "entry"] @@ [timestamp |-> t]

\* time.sleep(PROVIDER_BACKOFF_FACTOR * 2 ** attempt), in ticks
Backoff(attempt) == 2 ^ attempt

Pending == [kind |-> "pending"]
Returned(v, fromCache) == [kind |-> "return", value |-> v, cached |-> fromCache]

\* loops that give every provider one attempt more than the retry count
FbAdvance_OneMore ==
    IF fattempt + 1 <= PROVIDER_RETRY_ATTEMPTS
    THEN /\ fattempt' = fattempt + 1
         /\ UNCHANGED <<fprov, fpc, fresult>>
    ELSE IF fprov < Len(ProviderChain)
    THEN /\ fprov' = fprov + 1
         /\ fattempt' = 0
         /\ UNCHANGED <<fpc, fresult>>
    ELSE /\ fpc' = "done"
         /\ fresult' = Returned(None, FALSE)
         /\ UNCHANGED <<fprov, fattempt>>

\* loops that give every provider one attempt only
FbAdvance_NoRetry ==
    IF fprov < Len(ProviderChain)
    THEN /\ fprov' = fprov + 1
         /\ fattempt' = 0
         /\ UNCHANGED <<fpc, fresult>>
    ELSE /\ fpc' = "done"
         /\ fresult' = Returned(None, FALSE)
         /\ UNCHANGED <<fprov, fattempt>>

\* the loop headers: the next (provider, attempt) after this attempt, or
\* the fall out of both loops to `return None`
FbAdvance ==
    IF fattempt + 1 < PROVIDER_RETRY_ATTEMPTS
    THEN /\ fattempt' = fattempt + 1
         /\ UNCHANGED <<fprov, fpc, fresult>>
    ELSE IF fprov < Len(ProviderChain)
    THEN /\ fprov' = fprov + 1
         /\ fattempt' = 0
         /\ UNCHANGED <<fpc, fresult>>
    ELSE /\ fpc' = "done"
         /\ fresult' = Returned(None, FALSE)
         /\ UNCHANGED <<fprov, fattempt>>

\* get_market_data(symbol) up to the first provider.fetch: the cache check
FbCall(symbol) ==
    /\ fpc \in {"idle", "done"}
    /\ fsymbol' = symbol
    /\ flog' = <<>>
    /\ fprov' = 1
    /\ fattempt' = 0
    /\ IF TTLContains(cache, FbCacheKey(symbol), now)
       THEN /\ fresult' = Returned(LinkOf(cache, FbCacheKey(symbol)).value, TRUE)
            /\ cache' = TTLGetStore(cache, FbCacheKey(symbol), now)
            /\ fpc' = "done"
       ELSE /\ cache' = cache
            /\ IF PROVIDER_RETRY_ATTEMPTS > 0
               THEN fpc' = "attempt" /\ fresult' = Pending
               ELSE fpc' = "done" /\ fresult' = Returned(None, FALSE)
    /\ cs' = NoOp
    /\ UNCHANGED <<now, store, lastSet, PROVIDER_RETRY_ATTEMPTS, appVars, rtVars,
                   builderVars, signalVars, snapshot, auxVars>>

\* one pass through the body of the inner loop: provider.fetch(symbol)
\* answers with resp; a usable result is cached and returned, an unusable
\* one moves on, an exception in the body sleeps and moves on
FbAttempt(resp) ==
    /\ fpc = "attempt"
    /\ LET result == ProviderFetch(fprov, resp)
           key == FbCacheKey(fsymbol)
           stored == TTLSetItem(cache, key, CacheEntry(result, now),
                                now, TTL, ModuleMaxSize)
           \* cache[cache_key] raises KeyError: the except branch
           raised == Usable(result) /\ ~TTLContains(stored, key, now)
       IN  /\ flog' = Append(flog, [prov |-> fprov, attempt |-> fattempt,
                                    usable |-> Usable(result),
                                    price |-> IF result = None THEN None ELSE result.price,
                                    slept |-> IF raised THEN Backoff(fattempt) ELSE 0])
           /\ IF Usable(result)
              THEN /\ cache' = stored
                   /\ IF ~raised
                      THEN /\ fresult' = Returned(LinkOf(stored, key).value, FALSE)
                           /\ fpc' = "done"
                           /\ UNCHANGED <<now, fprov, fattempt>>
                      ELSE /\ now' = IF now + Backoff(fattempt) > MaxTime
                                     THEN MaxTime ELSE now + Backoff(fattempt)
                           /\ FbAdvance
              ELSE /\ cache' = cache
                   /\ now' = now
                   /\ FbAdvance
    /\ cs' = NoOp
    /\ UNCHANGED <<store, lastSet, fsymbol, PROVIDER_RETRY_ATTEMPTS, appVars, rtVars,
                   builderVars, signalVars, snapshot, auxVars>>

Call == \E symbol \in Symbols : FbCall(symbol)

Attempt == \E resp \in FbResponses : FbAttempt(resp)


(***************************************************************************)
(* The request handlers of app.py, with the MarketDataService that app.py  *)
(* defines (it shadows the imported services.market_data_service one).     *)
(***************************************************************************)
\* request.args of GET /api/data: the coin and the `days` string
DaysArgs == {Str(30), Str(120), Str(0), Text}
\* what a CoinGecko call of pycoingecko comes back with: an exception
\* (transport, timeout, non-success status) or the decoded JSON
CgResponses == {"error", "ok"}
\* get_price: an exception, a body without the coin, a body whose coin
\* entry has no 'usd', or a complete entry
PriceResponses == {"error", "no_coin", "no_usd", "ok"}

\* InputValidator.validate_data_request: int(days), then 1 <= days <= 365
ValidDays(d) == d.t = "str" /\ 1 <= d.v /\ d.v <= 365

\* a response of the Flask error handlers, or of jsonify
Http(status, error, hist, realtime) ==
    [status |-> status, error |-> error, hist |-> hist, realtime |-> realtime]

\* handle_validation_error
ValidationError400 == Http(400, "Invalid input parameters", "none", "none")
\* handle_data_fetch_error
DataFetchError503(hist, realtime) == Http(503, "Failed to fetch market data", hist, realtime)
\* handle_app_exception
AppException500(hist, realtime) == Http(500, "Internal application error", hist, realtime)

\* MarketDataService.get_realtime_data of app.py: no cache, no try
AppRealtimeRaises(priceResp) == priceResp \in {"error", "no_coin", "no_usd"}

\* the keys under which the data of a request for bitcoin would be cached
AppKeys ==
    {MarketDataKey("bitcoin", d.v) : d \in {a \in DaysArgs : ValidDays(a)}}
        \cup {RealtimeKey("bitcoin")}

NoUpstream == [at |-> [k \in AppKeys |-> -1], again |-> {}]

\* the history after a request that called upstream for the keys in
\* `called` and got data for the keys in `got`
Fetched(called, got) ==
    [at |-> [k \in AppKeys |-> IF k \in got THEN now ELSE upstream.at[k]],
     again |-> {k \in called : upstream.at[k] >= 0 /\ now < upstream.at[k] + TTL}]

\* GET /api/data: api_get_data with everything it calls
ApiGetData(coin_id, days, ohlcResp, chartResp, priceResp) ==
    LET key == MarketDataKey(coin_id, days.v)
        rkey == RealtimeKey(coin_id)
        cached == TTLGetValue(store, key, now)
        hit == cached # None
        \* get_market_data raises whatever the CoinGecko client raises
        histRaises == ~hit /\ "error" \in {ohlcResp, chartResp}
        market_data == [t |-> "MarketData", coin_id |-> coin_id, days |-> days.v]
        \* get_realtime_data calls get_price on every request that reaches it
        snap == IF AppRealtimeRaises(priceResp) THEN {} ELSE {rkey}
    IN  IF ~ValidDays(days)
        THEN /\ response' = ValidationError400
             /\ cs' = NoOp
             /\ upstream' = Fetched({}, {})
             /\ UNCHANGED <<store, snapshot>>
        ELSE IF hit
        THEN /\ store' = TTLGetStore(store, key, now)
             /\ cs' = [op |-> "get", key |-> key, value |-> None, ret |-> cached]
             /\ upstream' = Fetched({rkey}, snap)
             /\ UNCHANGED snapshot
             /\ response' = IF AppRealtimeRaises(priceResp)
                            THEN AppException500("cached", "raised")
                            ELSE Http(200, "", "cached", "snapshot")
        ELSE IF histRaises
        THEN \* `except Exception` wraps it into AppException
             /\ response' = AppException500("raised", "none")
             /\ cs' = [op |-> "get", key |-> key, value |-> None, ret |-> None]
             /\ upstream' = Fetched({key}, {})
             /\ UNCHANGED <<store, snapshot>>
        ELSE /\ store' = TTLSetItem(store, key, market_data, now, TTL, MaxSize)
             /\ cs' = [op |-> "set", key |-> key, value |-> market_data, ret |-> None]
             /\ upstream' = Fetched({key, rkey}, {key} \cup snap)
             /\ snapshot' = SnapshotAfterSet(key)
             /\ response' = IF AppRealtimeRaises(priceResp)
                            THEN AppException500("fetched", "raised")
                            ELSE Http(200, "", "fetched", "snapshot")

GetData ==
    /\ \E days \in DaysArgs, ohlcResp \in CgResponses, chartResp \in CgResponses,
          priceResp \in PriceResponses :
            ApiGetData("bitcoin", days, ohlcResp, chartResp, priceResp)
    /\ UNCHANGED <<now, lastSet, fbVars, rtVars, builderVars, signalVars, auxVars>>

\* POST /api/refresh: api_refresh, self.cache_service.clear_all()
ApiRefresh ==
    /\ store' = TTLClear(store)
    /\ cs' = [op |-> "clear_all", key |-> <<>>, value |-> None, ret |-> None]
    /\ response' = Http(200, "", "none", "none")
    /\ upstream' = NoUpstream
    /\ snapshot' = NoSnapshot
    /\ UNCHANGED <<now, lastSet, fbVars, rtVars, builderVars, signalVars, auxVars>>

InitApp == response = Http(0, "", "none", "none") /\ upstream = NoUpstream


(***************************************************************************)
(* Consensus mode (services/market_data_service.py).                       *)
(***************************************************************************)
Fields == {"price", "market_cap", "volume_24h", "change_24h"}

\* self.providers, in the order of the loop
Providers ==
    <<"coingecko", "coincap", "coinlore", "coinpaprika", "cryptocompare", "coinmarketcap">>

\* the coins asked for: one that every symbol map knows, one that none knows
Coins == {"bitcoin", "dogecoin"}
MappedCoins == {"bitcoin", "ethereum", "chainlink"}

\* the ways the environment sets the three API keys
KeyConfigs == {{}, {"cryptocompare"}, {"coinpaprika", "cryptocompare", "coinmarketcap"}}

Row(p, m, v, c) == [price |-> p, market_cap |-> m, volume_24h |-> v, change_24h |-> c]
Body(p, m, v, c) == [kind |-> "body"] @@ Row(p, m, v, c)

\* answers without a usable body: requests.get raises (timeout, connection
\* error), a status other than 200, a body that is not JSON, a JSON body
\* with no entry for the coin
NoBody == {[kind |-> "error"], [kind |-> "status"], [kind |-> "notjson"], [kind |-> "empty"]}

\* bodies of the providers that answer JSON numbers or null; all numbers
\* are multiples of 10, so that the mean of two of them is a whole number
NumberBodies ==
    { Body(Num(10), Num(20), Num(0), Missing),
      Body(Num(20), Missing, Num(10), Num(0)),
      Body(None, Num(30), Num(20), Num(10)) }

\* bodies of CoinCap and CoinLore, which answer numbers as strings (and
\* CoinLore's volume24 as a number)
StringBodies ==
    { Body(Str(30), Str(10), Num(0), Str(0)),
      Body(Str(10), EmptyStr, Num(30), Missing),
      Body(Text, Str(10), Num(10), Str(10)) }

RtResponses(provider) ==
    NoBody \cup (IF provider \in {"coincap", "coinlore"} THEN StringBodies ELSE NumberBodies)

\* the row of a body whose leaves are passed on with .get(key)
PassThroughRow(resp) ==
    Row(DictGet(resp.price, None), DictGet(resp.market_cap, None),
        DictGet(resp.volume_24h, None), DictGet(resp.change_24h, None))

\* `float(x) if x else None`
FloatIfTruthy(x) == IF Truthy(x) THEN PyFloat(x) ELSE None

\* the row of a body converted leaf by leaf with `float(x) if x else None`;
\* a float() that raises leaves the adapter
FloatRow(resp) ==
    LET row == Row(FloatIfTruthy(resp.price), FloatIfTruthy(resp.market_cap),
                   FloatIfTruthy(resp.volume_24h), FloatIfTruthy(resp.change_24h))
    IN  IF \E f \in Fields : row[f] = Raise THEN Raise ELSE row

AllNone == Row(None, None, None, None)

\* the part every adapter shares: requests.get, the status test, resp.json()
AdapterHead(resp, row) ==
    CASE resp.kind \in {"error", "notjson"} -> Raise
      [] resp.kind = "status" -> None
      [] OTHER -> row

_get_coingecko(coin_id, resp) ==
    AdapterHead(resp, IF resp.kind = "empty" THEN AllNone ELSE PassThroughRow(resp))

_get_coincap(coin_id, resp) ==
    AdapterHead(resp, IF resp.kind = "empty" THEN AllNone ELSE FloatRow(resp))

\* resp.json()[0] raises IndexError on an empty list
_get_coinlore(coin_id, resp) ==
    IF coin_id \notin MappedCoins THEN None
    ELSE AdapterHead(resp, IF resp.kind = "empty" THEN Raise ELSE FloatRow(resp))

_get_coinpaprika(coin_id, resp) ==
    IF coin_id \notin MappedCoins THEN None
    ELSE AdapterHead(resp, IF resp.kind = "empty" THEN AllNone ELSE PassThroughRow(resp))

_get_cryptocompare(coin_id, resp, keys) ==
    IF coin_id \notin MappedCoins \/ "cryptocompare" \notin keys THEN None
    ELSE AdapterHead(resp, IF resp.kind = "empty" THEN AllNone ELSE PassThroughRow(resp))

\* `if not data: return None` when the body has no coin
_get_coinmarketcap(coin_id, resp, keys) ==
    IF coin_id \notin MappedCoins \/ "coinmarketcap" \notin keys THEN None
    ELSE AdapterHead(resp, IF resp.kind = "empty" THEN None ELSE PassThroughRow(resp))

\* provider(coin_id) for the i-th entry of self.providers: a row, None, or
\* Raise when the adapter lets an exception out
CallAdapter(i, coin_id, resp, keys) ==
    CASE Providers[i] = "coingecko" -> _get_coingecko(coin_id, resp)
      [] Providers[i] = "coincap" -> _get_coincap(coin_id, resp)
      [] Providers[i] = "coinlore" -> _get_coinlore(coin_id, resp)
      [] Providers[i] = "coinpaprika" -> _get_coinpaprika(coin_id, resp)
      [] Providers[i] = "cryptocompare" -> _get_cryptocompare(coin_id, resp, keys)
      [] Providers[i] = "coinmarketcap" -> _get_coinmarketcap(coin_id, resp, keys)

RECURSIVE Insert(_, _)
\* x put into the ascending sequence s
Insert(x, s) ==
    IF s = <<>> THEN <<x>>
    ELSE IF x <= Head(s) THEN <<x>> \o s
    ELSE <<Head(s)>> \o Insert(x, Tail(s))

RECURSIVE Sorted(_)
\* sorted(data)
Sorted(s) == IF s = <<>> THEN <<>> ELSE Insert(Head(s), Sorted(Tail(s)))

\* a median that takes the middle of the data in the order given
Median_Unsorted(data) ==
    IF Len(data) % 2 = 1 THEN data[(Len(data) \div 2) + 1]
    ELSE (data[Len(data) \div 2] + data[(Len(data) \div 2) + 1]) \div 2

\* a median that takes the upper of the two middle values of an even count
Median_UpperMiddle(data) == Sorted(data)[(Len(data) \div 2) + 1]

\* statistics.median(data) of a non-empty list of numbers: the middle of
\* the sorted data, or the mean of the two middle values
Median(data) ==
    LET d == Sorted(data)
        n == Len(d)
        i == n \div 2
    IN  IF n % 2 = 1 THEN d[i + 1] ELSE (d[i] + d[i + 1]) \div 2

RECURSIVE NotNone(_)
\* [x for x in lst if x is not None], as plain numbers
NotNone(lst) ==
    IF lst = <<>> THEN <<>>
    ELSE (IF Head(lst) = None THEN <<>> ELSE <<Head(lst).v>>) \o NotNone(Tail(lst))

\* safe_median(lst)
safe_median(lst) == IF NotNone(lst) = <<>> THEN None ELSE Num(Median(NotNone(lst)))

\* price_list, market_cap_list, volume_list, change_list after these rows
FieldList(rows, f) == [n \in 1 .. Len(rows) |-> rows[n][f]]

\* consensus_data
Consensus(rows) ==
    [t |-> "snapshot",
     price |-> safe_median(FieldList(rows, "price")),
     market_cap |-> safe_median(FieldList(rows, "market_cap")),
     volume_24h |-> safe_median(FieldList(rows, "volume_24h")),
     change_24h |-> safe_median(FieldList(rows, "change_24h"))]

\* a loop body that appends a row of absent fields for a provider that
\* returned None
Collect_NoneAsRow(rows, data) ==
    IF data = Raise THEN rows
    ELSE IF data = None THEN Append(rows, AllNone)
    ELSE Append(rows, data)

\* the body of the loop: `if data:` appends the four fields of a row; None
\* adds nothing, and `except Exception: continue` adds nothing
Collect(rows, data) == IF data \in {None, Raise} THEN rows ELSE Append(rows, data)

\* a test that takes a snapshot without a price for no snapshot
CachedHit_NeedsPrice(cached) == cached # None /\ cached.price # None

\* `if cached:` on what the cache returned: None is false, and a snapshot
\* is a dict of four keys, which is true whatever its values
CachedHit(cached) == cached # None

\* get_realtime_data(coin_id) up to the loop: the cache check
RtCall(coin_id) ==
    /\ rpc \in {"idle", "done"}
    /\ rcoin' = coin_id
    /\ observations' = <<>>
    /\ rlog' = <<>>
    /\ reported' = {}
    /\ rprov' = 1
    /\ LET cached == TTLGetValue(store, RealtimeKey(coin_id), now)
       IN  /\ store' = TTLGetStore(store, RealtimeKey(coin_id), now)
           /\ cs' = [op |-> "get", key |-> RealtimeKey(coin_id), value |-> None,
                     ret |-> cached]
           /\ IF CachedHit(cached)
              THEN rpc' = "done" /\ rresult' = Returned(cached, TRUE)
              ELSE rpc' = "query" /\ rresult' = Pending
    /\ UNCHANGED <<now, lastSet, fbVars, appVars, api_keys, builderVars, signalVars,
                   snapshot, auxVars>>

\* one pass through the loop body: provider(coin_id) answers with resp; a
\* row is appended to the lists, None and an exception add nothing.  After
\* the last provider the medians are taken, cached and returned
RtQuery(resp) ==
    /\ rpc = "query"
    /\ LET data == CallAdapter(rprov, rcoin, resp, api_keys)
           rows == Collect(observations, data)
       IN  /\ observations' = rows
           /\ rlog' = Append(rlog, data)
           /\ reported' = IF data \in {None, Raise} \/ resp.kind # "body" THEN reported
                          ELSE reported \cup {f \in Fields : resp[f].t \in {"num", "str"}}
           /\ IF rprov < Len(Providers)
              THEN /\ rprov' = rprov + 1
                   /\ cs' = NoOp
                   /\ UNCHANGED <<rpc, rresult, store, snapshot>>
              ELSE /\ store' = TTLSetItem(store, RealtimeKey(rcoin), Consensus(rows),
                                          now, TTL, MaxSize)
                   /\ cs' = [op |-> "set", key |-> RealtimeKey(rcoin),
                             value |-> Consensus(rows), ret |-> None]
                   /\ rresult' = Returned(Consensus(rows), FALSE)
                   /\ rpc' = "done"
                   /\ snapshot' = [set |-> TRUE, key |-> RealtimeKey(rcoin),
                                   value |-> Consensus(rows), at |-> now,
                                   evicted |-> FALSE]
                   /\ UNCHANGED rprov
    /\ UNCHANGED <<now, lastSet, fbVars, appVars, api_keys, rcoin, builderVars, signalVars,
                   auxVars>>

\* the client asks for the same coin again
Realtime == RtCall(rcoin)

Query == \E resp \in RtResponses(Providers[rprov]) : RtQuery(resp)

\* MarketDataService.__init__ with the default configuration
InitRealtime ==
    /\ api_keys = {}
    /\ rpc = "idle"
    /\ rcoin = "bitcoin"
    /\ rprov = 1
    /\ observations = <<>>
    /\ rlog = <<>>
    /\ reported = {}
    /\ rresult = Pending

(***************************************************************************)
(* The series builder: MarketDataService.get_market_data of app.py, from   *)
(* the provider rows to the frame it returns.  A frame is the sequence of  *)
(* its rows in index order; a row is a record with its timestamp and its   *)
(* columns; a cell is a number Num(n) or NaN.                              *)
(***************************************************************************)
\* the latest timestamp a provider row carries
MaxTs == 4
\* a UTC calendar day in units of the timestamps: the bin of resample('D')
DayLen == 2
\* `if days <= 90`
ResampleMaxDays == 90

NaN == [t |-> "NaN"]

Timestamps == 0 .. MaxTs

\* the UTC calendar day a timestamp falls on
Day(t) == t \div DayLen

\* the provider rows at timestamp t: [timestamp, open, high, low, close] of
\* the OHLC call, [timestamp, volume] and [timestamp, market_cap] of the
\* chart call.  Within a day the first open, the greatest high, the least
\* low and the last close all differ from the other candidates
OhlcRow(t) ==
    [timestamp |-> t, open |-> Num(100 + 3 * t), high |-> Num(120 - 4 * t),
     low |-> Num(90 - 2 * t), close |-> Num(100 + 5 * t)]
VolumeRow(t) == [timestamp |-> t, volume |-> Num(5 + 2 * t)]
MarketCapRow(t) == [timestamp |-> t, market_cap |-> Num(1000 + 10 * t)]

RECURSIVE Ascending(_)
\* the elements of a set of numbers in ascending order
Ascending(S) ==
    IF S = {} THEN <<>>
    ELSE LET m == CHOOSE x \in S : \A y \in S : x <= y
         IN  <<m>> \o Ascending(S \ {m})

\* the provider series with one row at each timestamp of S, oldest first
OhlcRows(S) == [n \in 1 .. Cardinality(S) |-> OhlcRow(Ascending(S)[n])]
VolumeRows(S) == [n \in 1 .. Cardinality(S) |-> VolumeRow(Ascending(S)[n])]
MarketCapRows(S) == [n \in 1 .. Cardinality(S) |-> MarketCapRow(Ascending(S)[n])]

\* what get_coin_ohlc_by_id answers
OhlcSeries == {OhlcRows(S) : S \in SUBSET Timestamps}

\* what get_coin_market_chart_by_id answers: the volumes at any timestamps,
\* the market caps at all timestamps or at all but one
MarketCharts ==
    {[total_volumes |-> VolumeRows(V), market_caps |-> MarketCapRows(C)] :
        V \in SUBSET Timestamps,
        C \in {Timestamps} \cup {Timestamps \ {t} : t \in Timestamps}}

\* the most rows of a provider series that arrives in any order
MaxRows == 3

\* the orders in which up to MaxRows rows of the first two days can arrive:
\* ascending or not, with or without a timestamp repeated
ArrivalOrders == UNION {[1 .. n -> 0 .. DayLen] : n \in 0 .. MaxRows}

\* what get_coin_ohlc_by_id answers when the provider guarantees no order
UnorderedOhlcSeries ==
    {[n \in 1 .. Len(o) |-> OhlcRow(o[n])] : o \in ArrivalOrders}

\* what get_coin_market_chart_by_id answers when it guarantees no order:
\* the volumes in any order, the market caps ascending or descending
UnorderedMarketCharts ==
    {[total_volumes |-> [n \in 1 .. Len(o) |-> VolumeRow(o[n])],
      market_caps |-> [n \in 1 .. DayLen + 1 |->
                          MarketCapRow(IF up THEN n - 1 ELSE DayLen + 1 - n)]] :
        o \in ArrivalOrders, up \in BOOLEAN}

\* the ranges a request asks for, on both sides of the resampling limit
DayRanges == {30, ResampleMaxDays, ResampleMaxDays + 1}

\* a join that pairs the rows by position
InnerJoin_ByPosition(left, right) ==
    [n \in 1 .. (IF Len(left) < Len(right) THEN Len(left) ELSE Len(right)) |->
        left[n] @@ right[n]]

RECURSIVE InnerJoin(_, _)
\* left.join(right, how='inner') on the timestamp index: each row of left
\* with each row of right that has the same timestamp, in the order of left
InnerJoin(left, right) ==
    IF left = <<>> THEN <<>>
    ELSE LET matches == SelectSeq(right, LAMBDA r : r.timestamp = Head(left).timestamp)
         IN  [n \in 1 .. Len(matches) |-> Head(left) @@ matches[n]]
                \o InnerJoin(Tail(left), right)

Columns == {"open", "high", "low", "close", "volume", "market_cap"}

\* the aggregations of .agg over the rows of one bin; on an empty bin
\* first, last, max and min give NaN and sum gives 0
AggFirst(rows, f) == IF rows = <<>> THEN NaN ELSE rows[1][f]
AggLast(rows, f) == IF rows = <<>> THEN NaN ELSE rows[Len(rows)][f]
AggMax(rows, f) ==
    IF rows = <<>> THEN NaN
    ELSE Num(CHOOSE x \in {rows[n][f].v : n \in 1 .. Len(rows)} :
                \A n \in 1 .. Len(rows) : x >= rows[n][f].v)
AggMin(rows, f) ==
    IF rows = <<>> THEN NaN
    ELSE Num(CHOOSE x \in {rows[n][f].v : n \in 1 .. Len(rows)} :
                \A n \in 1 .. Len(rows) : x <= rows[n][f].v)
RECURSIVE AggSum(_, _)
AggSum(rows, f) ==
    IF rows = <<>> THEN Num(0)
    ELSE Num(Head(rows)[f].v + AggSum(Tail(rows), f).v)

RECURSIVE InsertRow(_, _)
\* the row x put into the frame s, which is in timestamp order, before the
\* first row that is not older than x
InsertRow(x, s) ==
    IF s = <<>> THEN <<x>>
    ELSE IF x.timestamp <= Head(s).timestamp THEN <<x>> \o s
    ELSE <<Head(s)>> \o InsertRow(x, Tail(s))

RECURSIVE SortRows(_)
\* the frame in timestamp order, rows of equal timestamp in the order they
\* had: resample sorts an index that is not monotonic with a stable sort
SortRows(frame) ==
    IF frame = <<>> THEN <<>> ELSE InsertRow(Head(frame), SortRows(Tail(frame)))

\* the row of the bin of day d, labelled with the start of the day
DailyBin(frame, d) ==
    LET rows == SelectSeq(frame, LAMBDA r : Day(r.timestamp) = d)
    IN  [timestamp |-> d * DayLen,
         open |-> AggFirst(rows, "open"), high |-> AggMax(rows, "high"),
         low |-> AggMin(rows, "low"), close |-> AggLast(rows, "close"),
         volume |-> AggSum(rows, "volume"), market_cap |-> AggLast(rows, "market_cap")]

\* df.resample('D').agg({...}): one bin for every calendar day from the
\* day of the earliest row to the day of the latest, empty days included
Resample(frame) ==
    IF frame = <<>> THEN <<>>
    ELSE LET days == {Day(frame[n].timestamp) : n \in 1 .. Len(frame)}
             lo == CHOOSE d \in days : \A e \in days : d <= e
             hi == CHOOSE d \in days : \A e \in days : d >= e
         IN  [n \in 1 .. hi - lo + 1 |-> DailyBin(SortRows(frame), lo + n - 1)]

\* a dropna that keeps every row
DropNa_KeepAll(frame) == frame

\* .dropna(): the rows without a NaN cell
DropNa(frame) == SelectSeq(frame, LAMBDA r : \A f \in Columns : r[f] # NaN)

\* get_market_data(coin_id, days) on a cache miss: the three frames, the
\* two inner joins, and the daily resampling of a range of at most 90 days
BuildSeries ==
    /\ bpc = "start"
    /\ LET df_ohlc == raw_ohlc
           df_volume == raw_market.total_volumes
           df_market_cap == raw_market.market_caps
           j == InnerJoin(InnerJoin(df_ohlc, df_volume), df_market_cap)
       IN  /\ joined' = j
           /\ df' = IF req_days <= ResampleMaxDays THEN DropNa(Resample(j)) ELSE j
    /\ bpc' = "done"
    /\ UNCHANGED <<now, cacheVars, fbVars, appVars, rtVars, signalVars,
                   raw_ohlc, raw_market, req_days, snapshot, auxVars>>

\* before any request
InitBuilder ==
    /\ raw_ohlc = <<>>
    /\ raw_market = [total_volumes |-> <<>>, market_caps |-> <<>>]
    /\ req_days = 30
    /\ joined = <<>>
    /\ df = <<>>
    /\ bpc = "start"

(***************************************************************************)
(* The indicators: SignalService.calculate_signals and ResponseFormatter   *)
(* .format_market_response.  A pandas Series is a record of its index (the *)
(* timestamps, in order) and its values (one cell per label).  A cell is   *)
(* NaN, an exact fraction Frac(a, b) with b > 0, an infinity, or Float: a  *)
(* finite number whose value is not computed (exponentially weighted       *)
(* means, standard deviations and what is derived from them).  Rounding of *)
(* floating-point arithmetic is not modelled.                              *)
(***************************************************************************)
\* the longest close series the indicators are computed on
MaxLen == 35

Series(index, values) == [index |-> index, values |-> values]
Frac(a, b) == [t |-> "frac", n |-> a, d |-> b]
Inf == [t |-> "inf"]
NegInf == [t |-> "-inf"]
Float == [t |-> "float"]

\* the close columns drawn: five shapes of every length up to MaxLen, at
\* daily timestamps
Shapes == {"rising", "accelerating", "falling", "flat", "zigzag"}
CloseAt(shape, i) ==
    CASE shape = "rising" -> 100 + 5 * i
      [] shape = "accelerating" -> 100 + i * i
      [] shape = "falling" -> 300 - 5 * i
      [] shape = "flat" -> 100
      [] shape = "zigzag" -> 100 + 5 * (i % 2)
CloseSeries ==
    {Series([i \in 1 .. n |-> (i - 1) * DayLen], [i \in 1 .. n |-> Frac(CloseAt(shape, i), 1)]) :
        n \in 0 .. MaxLen, shape \in Shapes}

\* float arithmetic on cells: NaN propagates, x / 0 is an infinity or NaN
\* and raises nothing, 1 / inf is 0
FNeg(x) ==
    CASE x.t = "frac" -> Frac(0 - x.n, x.d)
      [] x.t = "inf" -> NegInf
      [] x.t = "-inf" -> Inf
      [] OTHER -> x
FAdd(x, y) ==
    CASE x = NaN \/ y = NaN -> NaN
      [] x.t = "frac" /\ y.t = "frac" -> Frac(x.n * y.d + y.n * x.d, x.d * y.d)
      [] x.t = "frac" -> y
      [] y.t = "frac" -> x
      [] x = y -> x
      [] OTHER -> NaN
FSub(x, y) == FAdd(x, FNeg(y))
FDiv(x, y) ==
    CASE x = NaN \/ y = NaN -> NaN
      [] x.t = "frac" /\ y.t = "frac" ->
            IF y.n > 0 THEN Frac(x.n * y.d, x.d * y.n)
            ELSE IF y.n < 0 THEN Frac(0 - x.n * y.d, 0 - x.d * y.n)
            ELSE IF x.n > 0 THEN Inf
            ELSE IF x.n < 0 THEN NegInf
            ELSE NaN
      [] x.t = "frac" -> Frac(0, 1)
      [] y.t = "frac" -> IF (y.n >= 0) = (x = Inf) THEN Inf ELSE NegInf
      [] OTHER -> NaN

\* arithmetic on cells whose value is not computed
FloatOp(x, y) == IF x = NaN \/ y = NaN THEN NaN ELSE Float

\* s.diff(): the first cell is NaN
Diff(x) == [n \in 1 .. Len(x) |-> IF n = 1 THEN NaN ELSE FSub(x[n], x[n - 1])]

\* a where that leaves the cells in place whose comparison is false
\* because they are NaN
Gain_KeepNaN(delta) ==
    [n \in 1 .. Len(delta) |->
        IF delta[n] = NaN \/ delta[n].n > 0 THEN delta[n] ELSE Frac(0, 1)]

\* delta.where(delta > 0, 0): NaN > 0 is false, so a NaN cell becomes 0
Gain(delta) ==
    [n \in 1 .. Len(delta) |->
        IF delta[n] # NaN /\ delta[n].n > 0 THEN delta[n] ELSE Frac(0, 1)]

\* -delta.where(delta < 0, 0)
Loss(delta) ==
    [n \in 1 .. Len(delta) |->
        FNeg(IF delta[n] # NaN /\ delta[n].n < 0 THEN delta[n] ELSE Frac(0, 1))]

\* the positions of the window of `window` cells that ends at n
Window(n, window) == {m \in 1 .. n : m > n - window}

\* the positions among S whose cell of x is a number
Observed(x, S) == {m \in S : x[m] # NaN}

RECURSIVE SumCells(_, _)
\* the sum of the cells of x at the positions S
SumCells(x, S) ==
    IF S = {} THEN Frac(0, 1)
    ELSE LET m == CHOOSE i \in S : TRUE
         IN  FAdd(x[m], SumCells(x, S \ {m}))

\* a rolling mean that answers from the first observation on
RollingMean_FromFirst(x, window, min_periods) ==
    [n \in 1 .. Len(x) |->
        LET obs == Observed(x, Window(n, window))
        IN  IF obs = {} THEN NaN
            ELSE FDiv(SumCells(x, obs), Frac(Cardinality(obs), 1))]

\* x.rolling(window, min_periods).mean(): NaN until the window holds
\* min_periods observations
RollingMean(x, window, min_periods) ==
    [n \in 1 .. Len(x) |->
        LET obs == Observed(x, Window(n, window))
        IN  IF Cardinality(obs) < min_periods THEN NaN
            ELSE FDiv(SumCells(x, obs), Frac(Cardinality(obs), 1))]

\* x.rolling(window, min_periods).std()
RollingStd(x, window, min_periods) ==
    [n \in 1 .. Len(x) |->
        IF Cardinality(Observed(x, Window(n, window))) < min_periods THEN NaN ELSE Float]

\* x.ewm(span, adjust=False, min_periods).mean(): NaN until min_periods
\* observations have been seen
EwmMean(x, span, min_periods) ==
    [n \in 1 .. Len(x) |->
        IF Cardinality(Observed(x, 1 .. n)) < min_periods THEN NaN ELSE Float]

\* x / y cell by cell
SeriesDiv(x, y) == [n \in 1 .. Len(x) |-> FDiv(x[n], y[n])]

\* x + y, x - y cell by cell, on cells whose value is not computed
SeriesOp(x, y) == [n \in 1 .. Len(x) |-> FloatOp(x[n], y[n])]

SignalNames ==
    {"rsi", "macd", "signal_line", "histogram", "sma20", "upper_band", "lower_band"}

\* calculate_signals(df): every series keeps the index of df['close']
calculate_signals(c) ==
    LET delta == Diff(c.values)
        gain == Gain(delta)
        loss == Loss(delta)
        avg_gain == RollingMean(gain, 14, 14)
        avg_loss == RollingMean(loss, 14, 14)
        rs == SeriesDiv(avg_gain, avg_loss)
        rsi == [n \in 1 .. Len(rs) |->
                   FSub(Frac(100, 1), FDiv(Frac(100, 1), FAdd(Frac(1, 1), rs[n])))]
        ema12 == EwmMean(c.values, 12, 12)
        ema26 == EwmMean(c.values, 26, 26)
        macd == SeriesOp(ema12, ema26)
        signal_line == EwmMean(macd, 9, 9)
        histogram == SeriesOp(macd, signal_line)
        sma20 == RollingMean(c.values, 20, 20)
        rolling_mean == RollingMean(c.values, 20, 20)
        rolling_std == RollingStd(c.values, 20, 20)
        upper_band == SeriesOp(rolling_mean, rolling_std)
        lower_band == SeriesOp(rolling_mean, rolling_std)
    IN  [rsi |-> Series(c.index, rsi),
         macd |-> Series(c.index, macd),
         signal_line |-> Series(c.index, signal_line),
         histogram |-> Series(c.index, histogram),
         sma20 |-> Series(c.index, sma20),
         upper_band |-> Series(c.index, upper_band),
         lower_band |-> Series(c.index, lower_band)]

\* v.reindex(base_index): the cell of v at each label of base_index, NaN
\* for a label that v does not have
Reindex(v, base_index) ==
    Series(base_index,
           [n \in 1 .. Len(base_index) |->
               IF \E m \in 1 .. Len(v.index) : v.index[m] = base_index[n]
               THEN v.values[CHOOSE m \in 1 .. Len(v.index) : v.index[m] = base_index[n]]
               ELSE NaN])

\* a to_dict of every cell, NaN included
DropNaToDict_KeepNaN(v) ==
    [t \in {v.index[n] : n \in 1 .. Len(v.index)} |->
        v.values[CHOOSE n \in 1 .. Len(v.index) : v.index[n] = t]]

\* v.dropna().to_dict(): the labels whose cell is not NaN, each with its cell
DropNaToDict(v) ==
    [t \in {v.index[n] : n \in Observed(v.values, 1 .. Len(v.index))} |->
        v.values[CHOOSE n \in 1 .. Len(v.index) : v.index[n] = t]]

\* formatted_signals of format_market_response
format_signals(sigs, base_index) ==
    [k \in DOMAIN sigs |-> DropNaToDict(Reindex(sigs[k], base_index))]

NoSignals == [k \in SignalNames |-> Series(<<>>, <<>>)]
NoFormatted == [k \in SignalNames |-> <<>>]

\* api_get_data: signals = self.signal_service.calculate_signals(market_data.df)
CalculateSignals ==
    /\ spc = "start"
    /\ signals' = calculate_signals(close)
    /\ spc' = "signals"
    /\ UNCHANGED <<now, cacheVars, fbVars, appVars, rtVars, builderVars, close,
                   formatted_signals, snapshot, auxVars>>

\* api_get_data: response_data = self.response_formatter.format_market_response(...)
FormatResponse ==
    /\ spc = "signals"
    /\ formatted_signals' = format_signals(signals, close.index)
    /\ spc' = "formatted"
    /\ UNCHANGED <<now, cacheVars, fbVars, appVars, rtVars, builderVars, close, signals,
                   snapshot, auxVars>>

\* before any request
InitSignals ==
    /\ close = Series(<<>>, <<>>)
    /\ signals = NoSignals
    /\ formatted_signals = NoFormatted
    /\ spc = "start"

\* int(os.getenv('PROVIDER_RETRY_ATTEMPTS', 2)) when the variable is unset
DefaultRetryAttempts == 2

\* the module as imported, before the first call
InitFallback ==
    /\ cache = <<>>
    /\ fpc = "idle"
    /\ fsymbol = "bitcoin"
    /\ fprov = 1
    /\ fattempt = 0
    /\ flog = <<>>
    /\ fresult = Pending

(***************************************************************************)
(* Specifications.                                                         *)
(***************************************************************************)
(***************************************************************************)
(* Concurrent calls of get_market_data (services/services/market_data.py), *)
(* one per request thread, on the module-level cache.  A step is one       *)
(* statement that touches the cache, or the fetch with the test of its     *)
(* result, which touch locals only; the statements of different calls      *)
(* interleave in any order, and the clock may advance between any two.     *)
(***************************************************************************)
\* the symbol each concurrent call asks for: two calls for the same key
ReqSymbols == <<"bitcoin", "bitcoin">>

Requests == DOMAIN ReqSymbols

\* the price a provider quotes for a symbol
QuoteOf(symbol) == IF symbol = "bitcoin" THEN Num(10) ELSE Num(20)

\* what a provider answers a concurrent call with: a transport error or a
\* body that quotes the symbol
ConcResponses(symbol) ==
    {[kind |-> "error"],
     [kind |-> "body", price |-> QuoteOf(symbol), market_cap |-> Missing,
      volume_24h |-> Missing]}

\* the entry that an earlier call for another symbol left in the cache
EarlierEntry ==
    CacheEntry(ProviderFetch(1, [kind |-> "body", price |-> QuoteOf("ethereum"),
                                 market_cap |-> Missing, volume_24h |-> Missing]), 0)

\* the module-level cache when the concurrent calls arrive: empty, or
\* holding the live entry of the other symbol
EarlierCaches ==
    {<<>>, <<[key |-> FbCacheKey("ethereum"), value |-> EarlierEntry, expires |-> TTL]>>}

\* an exception that leaves get_market_data
Raised(exc) == [kind |-> "raise", exc |-> exc]

\* a call that has not started: provider, attempt, result and the outcome
IdleReq == [pc |-> "idle", prov |-> 1, attempt |-> 0, result |-> None, ret |-> Pending]

\* the loop headers on the locals q of a call: the next (provider,
\* attempt), or the fall out of both loops to `return None`
ReqAdvance(q) ==
    IF q.attempt + 1 < PROVIDER_RETRY_ATTEMPTS
    THEN [q EXCEPT !.pc = "fetch", !.attempt = @ + 1, !.result = None]
    ELSE IF q.prov < Len(ProviderChain)
    THEN [q EXCEPT !.pc = "fetch", !.prov = @ + 1, !.attempt = 0, !.result = None]
    ELSE [q EXCEPT !.pc = "done", !.result = None, !.ret = Returned(None, FALSE)]

\* `if cache_key in cache:`
ConcStart(r) ==
    /\ reqs[r].pc = "idle"
    /\ reqs' = [reqs EXCEPT ![r] =
          IF TTLContains(cache, FbCacheKey(ReqSymbols[r]), now)
          THEN [@ EXCEPT !.pc = "read"]
          ELSE IF PROVIDER_RETRY_ATTEMPTS > 0
          THEN [@ EXCEPT !.pc = "fetch"]
          ELSE [@ EXCEPT !.pc = "done", !.ret = Returned(None, FALSE)]]
    /\ UNCHANGED <<now, cache, produced>>

\* `cached = cache[cache_key]` and `return cached`: TTLCache.__getitem__
\* raises KeyError when the link is gone or has expired, outside any try
ConcRead(r) ==
    /\ reqs[r].pc = "read"
    /\ LET key == FbCacheKey(ReqSymbols[r])
       IN  IF TTLContains(cache, key, now)
           THEN /\ reqs' = [reqs EXCEPT ![r].pc = "done",
                                        ![r].ret = Returned(LinkOf(cache, key).value, TRUE)]
                /\ cache' = TTLGetStore(cache, key, now)
           ELSE /\ reqs' = [reqs EXCEPT ![r].pc = "done", ![r].ret = Raised("KeyError")]
                /\ cache' = cache
    /\ UNCHANGED <<now, produced>>

\* `result = provider.fetch(symbol)` and the test of the result
ConcFetch(r, resp) ==
    /\ reqs[r].pc = "fetch"
    /\ LET result == ProviderFetch(reqs[r].prov, resp)
       IN  reqs' = [reqs EXCEPT ![r] =
              IF Usable(result) THEN [@ EXCEPT !.pc = "store", !.result = result]
              ELSE ReqAdvance(@)]
    /\ UNCHANGED <<now, cache, produced>>

\* `cache[cache_key] = {**result, "timestamp": time.time()}`
ConcStore(r) ==
    /\ reqs[r].pc = "store"
    /\ LET key == FbCacheKey(ReqSymbols[r])
           entry == CacheEntry(reqs[r].result, now)
       IN  /\ cache' = TTLSetItem(cache, key, entry, now, TTL, ModuleMaxSize)
           /\ produced' = produced \cup {[symbol |-> ReqSymbols[r], value |-> entry]}
    /\ reqs' = [reqs EXCEPT ![r].pc = "reread"]
    /\ UNCHANGED now

\* `return cache[cache_key]`: the value the cache holds now; a KeyError
\* is caught by `except Exception`, and after the sleep the loops go on
ConcReread(r) ==
    /\ reqs[r].pc = "reread"
    /\ LET key == FbCacheKey(ReqSymbols[r])
       IN  IF TTLContains(cache, key, now)
           THEN /\ reqs' = [reqs EXCEPT ![r].pc = "done", ![r].result = None,
                                        ![r].ret = Returned(LinkOf(cache, key).value, FALSE)]
                /\ cache' = TTLGetStore(cache, key, now)
           ELSE /\ reqs' = [reqs EXCEPT ![r] = ReqAdvance(@)]
                /\ cache' = cache
    /\ UNCHANGED <<now, produced>>

\* one statement of one of the calls
ConcStep ==
    /\ \E r \in Requests :
          \/ ConcStart(r)
          \/ ConcRead(r)
          \/ \E resp \in ConcResponses(ReqSymbols[r]) : ConcFetch(r, resp)
          \/ ConcStore(r)
          \/ ConcReread(r)
    /\ cs' = NoOp
    /\ UNCHANGED <<store, lastSet, PROVIDER_RETRY_ATTEMPTS, fpc, fsymbol, fprov, fattempt,
                   flog, fresult, appVars, rtVars, builderVars, signalVars, snapshot,
                   outbound>>

\* no concurrent call of get_market_data has started
InitConcurrent ==
    /\ reqs = [r \in Requests |-> IdleReq]
    /\ produced = {}

(***************************************************************************)
(* The outbound calls of the fetch paths.  Each call site is named with    *)
(* the timeout it passes, in seconds; NoTimeout stands for a call that     *)
(* passes none, on which requests waits for the answer without limit.      *)
(***************************************************************************)
\* the longest a call is watched waiting, in seconds
MaxWait == 122
\* requests.get(url, timeout=10) of the consensus adapters
AdapterTimeout == 10
\* Config.PROVIDER_TIMEOUT when the environment does not set it
ProviderTimeout == 2
\* the request_timeout of the CoinGeckoAPI client that app.py builds with
\* the defaults of pycoingecko
CoinGeckoRequestTimeout == 120

NoTimeout == -1

\* the outbound call sites: the six consensus adapters, the six fallback
\* adapters, the five CoinGecko client calls of app.py, and the coin-list
\* and exchange-list lookups of market_data_service.py
CallSites ==
    {[site |-> <<"market_data_service", p>>, timeout |-> AdapterTimeout] :
        p \in {Providers[i] : i \in 1 .. Len(Providers)}}
    \cup {[site |-> <<"market_data", p>>, timeout |-> ProviderTimeout] :
        p \in {ProviderChain[i] : i \in 1 .. Len(ProviderChain)}}
    \cup {[site |-> <<"app", c>>, timeout |-> CoinGeckoRequestTimeout] :
        c \in {"get_coins_list", "get_exchanges_list", "get_price",
                "get_coin_ohlc_by_id", "get_coin_market_chart_by_id"}}
    \cup {[site |-> <<"market_data_service", c>>, timeout |-> NoTimeout] :
        c \in {"get_supported_coins", "get_supported_exchanges"}}

NoCall == [state |-> "idle"]

\* the call is made; the provider will answer or will stay silent
OutCall ==
    /\ outbound.state # "waiting"
    /\ \E c \in CallSites :
          outbound' = [state |-> "waiting", site |-> c.site, timeout |-> c.timeout,
                       elapsed |-> 0]
    /\ UNCHANGED <<now, cacheVars, fbVars, appVars, rtVars, builderVars, signalVars,
                   snapshot, concVars>>

\* the provider answers
OutRespond ==
    /\ outbound.state = "waiting"
    /\ outbound' = [outbound EXCEPT !.state = "answered"]
    /\ UNCHANGED <<now, cacheVars, fbVars, appVars, rtVars, builderVars, signalVars,
                   snapshot, concVars>>

\* a second passes without an answer: requests raises Timeout when the
\* timeout of the call has passed, and goes on waiting when it has none
OutWait ==
    /\ outbound.state = "waiting"
    /\ outbound.elapsed < MaxWait
    /\ outbound' =
          IF outbound.timeout # NoTimeout /\ outbound.elapsed + 1 >= outbound.timeout
          THEN [outbound EXCEPT !.state = "timed out", !.elapsed = @ + 1]
          ELSE [outbound EXCEPT !.elapsed = @ + 1]
    /\ UNCHANGED <<now, cacheVars, fbVars, appVars, rtVars, builderVars, signalVars,
                   snapshot, concVars>>

\* no outbound call is in progress
InitOutbound == outbound = NoCall

\* CacheService.__init__, at the start of the timer
InitCache ==
    /\ now = 0
    /\ store = <<>>
    /\ cs = NoOp
    /\ lastSet = [j \in Keys |-> NoSet]
    /\ snapshot = NoSnapshot
    /\ InitConcurrent
    /\ InitOutbound

NextCache == Get \/ Set \/ CacheClearAll \/ Tick

\* the cache service alone, driven by an arbitrary client
\* the start of a process whose environment sets no retry count
InitDefault ==
    /\ InitCache /\ InitFallback /\ InitApp /\ InitRealtime /\ InitBuilder /\ InitSignals
    /\ PROVIDER_RETRY_ATTEMPTS = DefaultRetryAttempts

SpecCache == InitDefault /\ [][NextCache]_vars

\* Config is read from the environment: any retry count up to MaxRetry
Init ==
    /\ InitCache /\ InitFallback /\ InitApp /\ InitRealtime /\ InitBuilder /\ InitSignals
    /\ PROVIDER_RETRY_ATTEMPTS \in 0 .. MaxRetry

Next == Call \/ Attempt \/ ApiRefresh \/ Tick

\* the fallback-mode fetch of market_data.py, beside the cache refresh
Spec == Init /\ [][Next]_vars

\* a call in progress goes on: every provider.fetch returns, with a result
\* or after its timeout, and the loop takes its next step
SpecFair == Spec /\ WF_vars(Attempt)

NextApp == GetData \/ ApiRefresh \/ Tick

\* the requests GET /api/data and POST /api/refresh of app.py
SpecApp == InitDefault /\ [][NextApp]_vars

\* the service is built in an environment that sets some of the API keys,
\* and serves a client that asks for one coin
InitConsensus ==
    /\ InitCache /\ InitFallback /\ InitApp /\ InitBuilder /\ InitSignals
    /\ PROVIDER_RETRY_ATTEMPTS = DefaultRetryAttempts
    /\ api_keys \in KeyConfigs
    /\ rpc = "idle"
    /\ rcoin \in Coins
    /\ rprov = 1
    /\ observations = <<>>
    /\ rlog = <<>>
    /\ reported = {}
    /\ rresult = Pending

NextConsensus == Realtime \/ Query

\* requests for the realtime consensus snapshot, within one instant
SpecConsensus == InitConsensus /\ [][NextConsensus]_vars

\* the service is built in an environment that sets no API key, and serves
\* a client that asks for one coin
InitSnapshot ==
    /\ InitCache /\ InitFallback /\ InitApp /\ InitBuilder /\ InitSignals
    /\ PROVIDER_RETRY_ATTEMPTS = DefaultRetryAttempts
    /\ api_keys = {}
    /\ rpc = "idle"
    /\ rcoin \in Coins
    /\ rprov = 1
    /\ observations = <<>>
    /\ rlog = <<>>
    /\ reported = {}
    /\ rresult = Pending

\* another user of the cache service stores under another key
OtherSet == \E k \in Keys \ {RealtimeKey(rcoin)} : CacheSet(k, Num(1))

\* the providers are down (every call ends in a transport error) or up
\* (every call is answered with the same complete body)
OutageResponses == {[kind |-> "error"], Body(Num(10), Num(20), Num(30), Num(10))}

QueryOutage == \E resp \in OutageResponses : RtQuery(resp)

NextSnapshot == Realtime \/ QueryOutage \/ OtherSet \/ CacheClearAll \/ Tick

\* requests for the realtime consensus snapshot of one coin over time,
\* beside the other users of the cache service and the cache refresh
SpecSnapshot == InitSnapshot /\ [][NextSnapshot]_vars

\* the environment sets the retry count to one attempt per provider; an
\* earlier call may have cached another symbol
InitRequests ==
    /\ now = 0 /\ store = <<>> /\ cs = NoOp /\ lastSet = [j \in Keys |-> NoSet]
    /\ snapshot = NoSnapshot
    /\ InitOutbound /\ InitApp /\ InitRealtime /\ InitBuilder /\ InitSignals
    /\ PROVIDER_RETRY_ATTEMPTS = 1
    /\ cache \in EarlierCaches
    /\ fpc = "idle" /\ fsymbol = "bitcoin" /\ fprov = 1 /\ fattempt = 0
    /\ flog = <<>> /\ fresult = Pending
    /\ reqs = [r \in Requests |-> IdleReq]
    /\ produced = {[symbol |-> "ethereum", value |-> cache[n].value] : n \in 1 .. Len(cache)}

NextConcurrent == ConcStep \/ Tick

\* concurrent calls of get_market_data, interleaved statement by statement
SpecConcurrent == InitRequests /\ [][NextConcurrent]_vars

NextOutbound == OutCall \/ OutRespond \/ OutWait

\* the outbound calls of the fetch paths, each against a provider that
\* answers at some time or never
SpecOutbound == InitDefault /\ [][NextOutbound]_vars

\* a request on a cache miss, for every answer of the two CoinGecko calls
InitSeries ==
    /\ InitCache /\ InitFallback /\ InitApp /\ InitRealtime /\ InitSignals
    /\ PROVIDER_RETRY_ATTEMPTS = DefaultRetryAttempts
    /\ raw_ohlc \in OhlcSeries
    /\ raw_market \in MarketCharts
    /\ req_days \in DayRanges
    /\ joined = <<>>
    /\ df = <<>>
    /\ bpc = "start"

NextBuilder == BuildSeries

\* the series builder of app.py on provider answers of up to MaxTs + 1 rows
SpecBuilder == InitSeries /\ [][NextBuilder]_vars

\* a request on a cache miss whose provider answers arrive in any order
InitUnordered ==
    /\ InitCache /\ InitFallback /\ InitApp /\ InitRealtime /\ InitSignals
    /\ PROVIDER_RETRY_ATTEMPTS = DefaultRetryAttempts
    /\ raw_ohlc \in UnorderedOhlcSeries
    /\ raw_market \in UnorderedMarketCharts
    /\ req_days \in DayRanges
    /\ joined = <<>>
    /\ df = <<>>
    /\ bpc = "start"

NextUnordered == BuildSeries

\* the series builder of app.py on provider answers in any order
SpecUnordered == InitUnordered /\ [][NextUnordered]_vars

\* a frame of up to MaxLen daily points handed to calculate_signals
InitIndicators ==
    /\ InitCache /\ InitFallback /\ InitApp /\ InitRealtime /\ InitBuilder
    /\ PROVIDER_RETRY_ATTEMPTS = DefaultRetryAttempts
    /\ close \in CloseSeries
    /\ signals = NoSignals
    /\ formatted_signals = NoFormatted
    /\ spc = "start"

NextSignals == CalculateSignals \/ FormatResponse

\* the indicators and their formatting, on every close column drawn
SpecSignals == InitIndicators /\ [][NextSignals]_vars

(***************************************************************************)
(* Claims about the fallback-mode fetch (Spec).                            *)
(***************************************************************************)
\* the call in progress has ended on a cache miss
FetchedDone == fpc = "done" /\ ~fresult.cached

\* the attempts of the log made on the i-th provider
AttemptsOn(i) == {n \in 1 .. Len(flog) : flog[n].prov = i}

\* C1: on a cache miss the providers are attempted in chain order: an
\* attempt on provider j comes only after every attempt 0..R-1 of every
\* provider i < j was made and gave no usable result; no attempt follows a
\* usable one; and the call returns the result of the first attempt whose
\* price is defined, tagged with its provider, or None when there is none
C1_ChainOrderFirstUsableWins ==
    /\ \A m, n \in 1 .. Len(flog) :
          m < n => /\ flog[m].prov <= flog[n].prov
                   /\ ~flog[m].usable
                   /\ flog[m].prov = flog[n].prov => flog[m].attempt < flog[n].attempt
    /\ \A n \in 1 .. Len(flog) : \A i \in 1 .. flog[n].prov - 1 :
          \A a \in 0 .. PROVIDER_RETRY_ATTEMPTS - 1 :
             \E m \in 1 .. n - 1 :
                flog[m].prov = i /\ flog[m].attempt = a /\ ~flog[m].usable
    /\ \A n \in 1 .. Len(flog) : flog[n].usable <=> flog[n].price # None
    /\ (Len(flog) > 0 /\ flog[Len(flog)].usable) =>
          /\ FetchedDone
          /\ fresult.value # None
          /\ fresult.value.price = flog[Len(flog)].price
          /\ fresult.value.provider = ProviderChain[flog[Len(flog)].prov]
    /\ (FetchedDone /\ fresult.value # None) =>
          Len(flog) > 0 /\ flog[Len(flog)].usable

\* C1 witness: with two attempts per provider, the call returned the result
\* of CoinLore's second attempt after four unusable attempts
C1_Witness ==
    /\ FetchedDone
    /\ PROVIDER_RETRY_ATTEMPTS = 2
    /\ Len(flog) = 6
    /\ fresult.value # None
    /\ fresult.value.provider = "CoinLore"
    /\ fresult.value.price = Num(10)

\* C2: a fetch that returns the result of provider Pk attempted every
\* provider before Pk exactly PROVIDER_RETRY_ATTEMPTS times, all before the
\* first attempt on Pk, and Pk at least once and at most that many times
C2_RetryCountBeforeFallback ==
    (FetchedDone /\ fresult.value # None) =>
        \E k \in 1 .. Len(ProviderChain) :
            /\ fresult.value.provider = ProviderChain[k]
            /\ \A i \in 1 .. k - 1 :
                  /\ Cardinality(AttemptsOn(i)) = PROVIDER_RETRY_ATTEMPTS
                  /\ \A m \in AttemptsOn(i), n \in AttemptsOn(k) : m < n
            /\ Cardinality(AttemptsOn(k)) \in 1 .. PROVIDER_RETRY_ATTEMPTS
            /\ \A i \in k + 1 .. Len(ProviderChain) : AttemptsOn(i) = {}

\* C2 witness: retry count 3, P1 (CoinGecko) failed three times, P2
\* (CoinCap) failed once and succeeded on its second attempt
C2_Witness ==
    /\ FetchedDone
    /\ PROVIDER_RETRY_ATTEMPTS = 3
    /\ fresult.value # None
    /\ fresult.value.provider = "CoinCap"
    /\ Len(flog) = 5
    /\ \A n \in 1 .. 3 : flog[n].prov = 1 /\ ~flog[n].usable
    /\ flog[4].prov = 2 /\ ~flog[4].usable
    /\ flog[5].prov = 2 /\ flog[5].usable

\* C9 (as claimed): once clear_all has returned (POST /api/refresh), every
\* cache of the fetch paths misses on every key: the CacheService cache
\* and the module-level cache of get_market_data hold no live entry
C9_ClearAllEmptiesEveryCache ==
    cs.op = "clear_all" =>
        /\ store = <<>>
        /\ \A symbol \in Symbols : ~TTLContains(cache, FbCacheKey(symbol), now)

\* the part of C9 that holds: the CacheService cache is empty after
\* clear_all, whatever it held and however often it is called
C9_ClearAllEmptiesCacheService == cs.op = "clear_all" => store = <<>>

\* C16 (as claimed): whenever an attempt on a provider is followed by
\* another attempt on the same provider (it failed with attempts left), the
\* backoff PROVIDER_BACKOFF_FACTOR * 2^attempt was slept between the two
C16_BackoffBetweenAttempts ==
    \A n \in 1 .. Len(flog) - 1 :
        flog[n + 1].prov = flog[n].prov => flog[n].slept = Backoff(flog[n].attempt)

\* what the loop does instead: no attempt of a call is followed by a sleep,
\* because time.sleep sits in an except branch that no fetch reaches
C16_NoSleepAfterAnyAttempt == \A n \in 1 .. Len(flog) : flog[n].slept = 0

\* C17 (as claimed): a provider whose credential the environment does not
\* set is skipped: no fetch, hence no outbound call and no retry attempt,
\* is made on it
C17_UnconfiguredProviderSkipped ==
    \A n \in 1 .. Len(flog) :
        ProviderChain[flog[n].prov] \in DOMAIN CredentialOf =>
            CredentialOf[ProviderChain[flog[n].prov]] \in api_keys

\* in the consensus set the adapters of CryptoCompare and CoinMarketCap
\* return before any call when their key is not set, with the same None
\* that a non-200 status gives; the adapter of CoinPaprika calls regardless
C17_KeylessConsensusAdapterIsNone ==
    \A i \in {5, 6}, coin_id \in Coins : \A resp \in RtResponses(Providers[i]) :
        /\ CallAdapter(i, coin_id, resp, {}) = None
        /\ CallAdapter(i, "bitcoin", [kind |-> "status"], {Providers[i]}) = None

\* the states of the orchestrator-level machine
Idle == fpc = "idle"
TryingProvider(i) == fpc = "attempt" /\ fprov = i
Success == fpc = "done" /\ fresult.value # None
Exhausted == fpc = "done" /\ fresult.value = None

\* what holds of the call in progress in every state
C24_Machine ==
    /\ Idle \/ Success \/ Exhausted \/ \E i \in 1 .. Len(ProviderChain) : TryingProvider(i)
    /\ \A m, n \in 1 .. Len(flog) : m <= n => flog[m].prov <= flog[n].prov
    /\ \A i \in 1 .. Len(ProviderChain) :
          Cardinality(AttemptsOn(i)) <= PROVIDER_RETRY_ATTEMPTS
    /\ Len(flog) <= Len(ProviderChain) * PROVIDER_RETRY_ATTEMPTS
    /\ fpc = "attempt" =>
          /\ fattempt < PROVIDER_RETRY_ATTEMPTS
          /\ Len(flog) = (fprov - 1) * PROVIDER_RETRY_ATTEMPTS + fattempt
    /\ (Exhausted /\ ~fresult.cached) =>
          Len(flog) = Len(ProviderChain) * PROVIDER_RETRY_ATTEMPTS

\* what holds of every step: within a call the provider in turn never
\* moves back, every attempt counts, and from Success or Exhausted the
\* only step is the start of the next call
C24_Steps ==
    /\ (fpc = "attempt" /\ fpc' = "attempt") =>
          /\ fprov' >= fprov
          /\ fprov' = fprov => fattempt' >= fattempt
          /\ <<fprov', fattempt'>> # <<fprov, fattempt>> => Len(flog') = Len(flog) + 1
    /\ (fpc = "attempt" /\ fpc' = "done") => Len(flog') = Len(flog) + 1
    /\ fpc = "done" => (flog' = flog \/ flog' = <<>>)
    /\ fpc' = "idle" => fpc = "idle"

\* C24: every call follows Idle -> TryingProvider(i) -> ... -> Success |
\* Exhausted and terminates: the provider index never decreases, no
\* provider is attempted more often than the retry count, the attempts of a
\* call number at most providers x retry count, no attempt follows Success
\* or Exhausted, and a call that is trying a provider ends
C24_CallMachineTerminates ==
    /\ []C24_Machine
    /\ [][C24_Steps]_vars
    /\ (\E i \in 1 .. Len(ProviderChain) : TryingProvider(i)) ~> (Success \/ Exhausted)

\* C24 witness: with three attempts per provider a call ended Exhausted
\* after eighteen attempts, the last three on the last provider
C24_Witness ==
    /\ Exhausted /\ ~fresult.cached
    /\ PROVIDER_RETRY_ATTEMPTS = 3
    /\ Len(flog) = 18
    /\ Cardinality(AttemptsOn(Len(ProviderChain))) = 3

\* the names of the providers of the chain
ProviderNames == {ProviderChain[i] : i \in 1 .. Len(ProviderChain)}

\* what holds of the module-level cache in every state
C26_Entries ==
    /\ \A n \in 1 .. Len(cache) :
          /\ cache[n].value.t = "entry"
          /\ cache[n].value.price # None
          /\ cache[n].value.provider \in ProviderNames
          /\ cache[n].expires = cache[n].value.timestamp + TTL
    /\ (Exhausted /\ ~fresult.cached) =>
          /\ \A n \in 1 .. Len(flog) : ~flog[n].usable
          /\ ~TTLContains(cache, FbCacheKey(fsymbol), now)

\* what holds of every step: the cache changes only in the step of a
\* successful attempt, which writes the result of that attempt under the
\* key of the call; and the step after an exhausted call is no cache hit
C26_Writes ==
    /\ cache' # cache =>
          /\ fpc = "attempt" /\ Success'
          /\ Len(flog') = Len(flog) + 1
          /\ flog'[Len(flog')].usable
          /\ TTLContains(cache', FbCacheKey(fsymbol), now)
          /\ LinkOf(cache', FbCacheKey(fsymbol)).value.provider = ProviderChain[fprov]
          /\ LinkOf(cache', FbCacheKey(fsymbol)).value.price = flog'[Len(flog')].price
          /\ LinkOf(cache', FbCacheKey(fsymbol)).value.price # None
          /\ LinkKeys(cache') = LinkKeys(cache) \cup {FbCacheKey(fsymbol)}
    /\ (Exhausted /\ ~fresult.cached /\ fpc' = "done") => ~fresult'.cached
    /\ (Exhausted /\ ~fresult.cached /\ PROVIDER_RETRY_ATTEMPTS > 0 /\ fpc' # fpc) =>
          TryingProvider(1)' /\ flog' = <<>>

\* C26: the cache of get_market_data holds usable results only: every
\* entry is written by a successful attempt, has a defined price and names
\* the provider that produced it; no other step of a call changes the
\* cache, so a call that ends Exhausted leaves it as it was, and the next
\* call for the symbol misses and walks the chain again
C26_CacheHoldsUsableOnly == []C26_Entries /\ [][C26_Writes]_vars

\* C26 witness: a call ended Exhausted on a miss while the cache still
\* held the expired entry, unchanged, that an earlier call had written from
\* CoinCap with the defined price 0
C26_Witness ==
    /\ Exhausted /\ ~fresult.cached
    /\ Len(flog) > 0
    /\ Len(cache) = 1
    /\ cache[1].expires <= now
    /\ cache[1].value.provider = "CoinCap"
    /\ cache[1].value.price = Num(0)

(***************************************************************************)
(* Claims about the request handlers (SpecApp).                            *)
(***************************************************************************)
\* C3 (as claimed): when the historical fetch of a request found no data
\* upstream, the caller receives the fetch failure (503, "Failed to fetch
\* market data"), which is neither a success nor the generic internal error
C3_ExhaustedIsFetchFailure ==
    response.hist = "raised" =>
        /\ response = DataFetchError503("raised", "none")
        /\ response.status \notin {200, 500}

\* C4 (as claimed): get_realtime_data never fails, whatever the provider
\* answers: every request that reached it got a snapshot
C4_RealtimeNeverFails == response.realtime # "raised"

\* C20 (as claimed): the historical and the realtime fetch are both
\* cache-checked: no request calls upstream for data that an earlier request
\* fetched less than the ttl ago with no clear in between
C20_BothCacheChecked == upstream.again = {}

\* the historical half of C20 holds: get_market_data of app.py serves a
\* live entry from the cache and stores what it fetched before returning
C20_HistoricalCacheChecked ==
    /\ \A k \in AppKeys \ {RealtimeKey("bitcoin")} : k \notin upstream.again
    /\ (response.hist = "cached" /\ cs # NoOp) => cs.op = "get" /\ cs.ret # None
    /\ (response.hist = "fetched" /\ cs # NoOp) =>
          cs.op = "set" /\ TTLGetValue(store, cs.key, now) = cs.value

(***************************************************************************)
(* Claims about the consensus-mode fetch (SpecConsensus).                  *)
(***************************************************************************)
\* the request in progress has ended on a cache miss
MergedDone == rpc = "done" /\ ~rresult.cached

\* the observations that carry a value for field f
Carrying(f) == {n \in 1 .. Len(observations) : observations[n][f] # None}

\* the least collected value of f that at least half of the values do not exceed
LowerMedian(f) ==
    CHOOSE x \in {observations[n][f].v : n \in Carrying(f)} :
        /\ 2 * Cardinality({n \in Carrying(f) : observations[n][f].v <= x})
              >= Cardinality(Carrying(f))
        /\ \A y \in {observations[n][f].v : n \in Carrying(f)} :
              2 * Cardinality({n \in Carrying(f) : observations[n][f].v <= y})
                  >= Cardinality(Carrying(f)) => x <= y

\* the greatest collected value of f that at least half of the values reach
UpperMedian(f) ==
    CHOOSE x \in {observations[n][f].v : n \in Carrying(f)} :
        /\ 2 * Cardinality({n \in Carrying(f) : observations[n][f].v >= x})
              >= Cardinality(Carrying(f))
        /\ \A y \in {observations[n][f].v : n \in Carrying(f)} :
              2 * Cardinality({n \in Carrying(f) : observations[n][f].v >= y})
                  >= Cardinality(Carrying(f)) => x >= y

\* C5: for each of the four fields on its own, the snapshot value is the
\* standard median of the non-absent values of that field over all the
\* observations collected (the middle value of an odd count, the mean of the
\* two middle values of an even count: [10,20] -> 15, [10,20,30] -> 20); an
\* observation absent for one field counts for the fields it carries
C5_FieldwiseMedian ==
    /\ Median(<<10, 20>>) = 15
    /\ Median(<<20, 30, 10>>) = 20
    /\ MergedDone =>
         \A f \in Fields :
            Carrying(f) # {} =>
               /\ rresult.value[f] # None
               /\ 2 * rresult.value[f].v = LowerMedian(f) + UpperMedian(f)

\* C5 witness: the price is the mean 15 of the two prices collected, 10 and
\* 20, while a third observation without a price counted for market_cap
C5_Witness ==
    /\ MergedDone
    /\ rresult.value.price = Num(15)
    /\ Cardinality(Carrying("price")) = 2
    /\ \E n \in 1 .. Len(observations) :
          observations[n].price = None /\ n \in Carrying("market_cap")
    /\ Cardinality(Carrying("market_cap")) = 3

\* C6 (as claimed): a snapshot field is absent exactly when no collected
\* observation carries a value for it, and a field for which some provider
\* reported a value, the value 0 included, is not absent
C6_AbsentIffNothingReported ==
    MergedDone =>
        \A f \in Fields :
           /\ rresult.value[f] = None <=> Carrying(f) = {}
           /\ f \in reported => rresult.value[f] # None

\* the part of C6 that safe_median keeps: absent exactly when no collected
\* observation carries a value, and an observed 0 gives 0
C6_AbsentIffNothingCollected ==
    MergedDone =>
        \A f \in Fields : rresult.value[f] = None <=> Carrying(f) = {}

\* C10 (as claimed): no adapter lets an exception out to its caller:
\* every provider call of a request ended with a row or with None
C10_AdaptersNeverRaise == \A n \in 1 .. Len(rlog) : rlog[n] # Raise

\* the half of C10 that holds: no fetch of the fallback chain raises
C10_FallbackFetchNeverRaises ==
    \A i \in 1 .. Len(ProviderChain), resp \in FbResponses : ProviderFetch(i, resp) # Raise

\* the revision of get_realtime_data in market_data_service.py does what C4
\* asks of it: with no observation collected the snapshot is all absent
C4_ConsensusAllAbsentOnTotalFailure ==
    (MergedDone /\ observations = <<>>) =>
        \A f \in Fields : rresult.value[f] = None

\* the consensus revision of get_realtime_data is cache-checked as C20
\* says: a hit calls no provider, a miss stores the snapshot it returns
C20_ConsensusCacheChecked ==
    /\ (rpc = "done" /\ rresult.cached) => rlog = <<>>
    /\ MergedDone => TTLGetValue(store, RealtimeKey(rcoin), now) = rresult.value

\* the snapshot of the latest miss is still due from the cache: stored
\* less than the ttl ago, with no clear since
SnapshotDue == snapshot.set /\ now < snapshot.at + TTL

\* every field of the snapshot is absent
AllAbsent(snap) == \A f \in Fields : snap[f] = None

\* what holds whenever get_realtime_data has stored or returned a snapshot
C27_Stored ==
    /\ (MergedDone /\ cs.op = "set" /\ cs.key = RealtimeKey(rcoin)) =>
          /\ cs.value = rresult.value
          /\ TTLGetValue(store, RealtimeKey(rcoin), now) = rresult.value
          /\ snapshot.value = rresult.value /\ snapshot.at = now
    /\ MergedDone => Len(rlog) = Len(Providers)
    /\ (rpc = "done" /\ rresult.cached) => rlog = <<>>
    /\ (rpc = "done" /\ rresult.cached /\ cs.op = "get" /\ cs.key = RealtimeKey(rcoin)) =>
          /\ SnapshotDue
          /\ rresult.value = snapshot.value
          /\ cs.ret = snapshot.value

\* C27 (as claimed): the snapshot of a miss is always stored, the
\* all-absent one included, and every later call before the entry expires
\* or the cache is cleared returns it without querying a provider: no call
\* is querying providers while the snapshot is due
C27_ServedUntilExpiryOrClear ==
    /\ C27_Stored
    /\ SnapshotDue => rpc # "query"

\* C27 as amended: ... before the entry expires, is evicted to make room
\* for another key, or the cache is cleared ...
C27_ServedUntilExpiryEvictionOrClear ==
    /\ C27_Stored
    /\ (SnapshotDue /\ ~snapshot.evicted) => rpc # "query"

\* C27 witness: after a total provider failure the all-absent snapshot was
\* stored, and a call at a later instant within the ttl returned it from
\* the cache without a provider call
C27_Witness ==
    /\ rpc = "done" /\ rresult.cached
    /\ cs.op = "get" /\ cs.key = RealtimeKey(rcoin)
    /\ AllAbsent(rresult.value)
    /\ rresult.value = snapshot.value
    /\ snapshot.at < now
    /\ rlog = <<>>

\* the rows among the values the provider calls returned, in call order
Succeeded(log) == SelectSeq(log, LAMBDA d : d \notin {None, Raise})

\* C18: in an uncached request the providers are called one after the
\* other, each exactly once whatever the earlier ones returned or raised; a
\* provider that raised or returned None adds nothing; and the rows folded
\* into the snapshot are exactly the rows the providers of this request
\* returned
C18_EveryProviderOnceFoldSucceeded ==
    /\ rpc = "query" => Len(rlog) = rprov - 1
    /\ MergedDone => Len(rlog) = Len(Providers)
    /\ observations = Succeeded(rlog)
    /\ MergedDone => rresult.value = Consensus(Succeeded(rlog))

\* C18 witness: a request ended after one provider raised and another
\* returned None, and a provider called after both contributed its row
C18_Witness ==
    /\ MergedDone
    /\ \E i, j, k \in 1 .. Len(rlog) :
          /\ i < k /\ j < k
          /\ rlog[i] = Raise /\ rlog[j] = None
          /\ rlog[k] \notin {None, Raise}
    /\ Len(observations) >= 2

\* the rows of the request in the order p
Permuted(p) == [n \in 1 .. Len(observations) |-> observations[p[n]]]

\* C19: the snapshot is the same for every order in which the collected
\* observations could have arrived: each field depends on the multiset of
\* the values only
C19_OrderIndependent ==
    MergedDone =>
        \A p \in Permutations(1 .. Len(observations)) :
            Consensus(Permuted(p)) = rresult.value

\* C19 witness: three prices were collected out of ascending order and
\* the snapshot carries their median
C19_Witness ==
    /\ MergedDone
    /\ Len(observations) >= 3
    /\ Cardinality(Carrying("price")) = 3
    /\ \E m, n \in Carrying("price") :
          m < n /\ observations[m].price.v > observations[n].price.v
    /\ rresult.value.price = Num(20)

(***************************************************************************)
(* Claims about the series builder (SpecBuilder).                          *)
(***************************************************************************)
\* get_market_data has returned
BuiltDone == bpc = "done"

TimestampsOf(frame) == {frame[n].timestamp : n \in 1 .. Len(frame)}

DayRows(d) == {n \in 1 .. Len(joined) : Day(joined[n].timestamp) = d}

RECURSIVE VolumeSum(_)
\* the sum of the volumes of the joined points R
VolumeSum(R) ==
    IF R = {} THEN 0
    ELSE LET n == CHOOSE x \in R : TRUE
         IN  joined[n].volume.v + VolumeSum(R \ {n})

\* C12: for a range of at most 90 days the frame returned has exactly one
\* point for each UTC calendar day that has joined points, and none for any
\* other day, in ascending order, with open = first, high = max, low = min,
\* close = last, volume = sum and market_cap = last of the points of the
\* day; for a longer range it is the joined frame
C12_DailyResample ==
    BuiltDone =>
        IF req_days <= ResampleMaxDays
        THEN /\ \A m, n \in 1 .. Len(df) : m < n => Day(df[m].timestamp) < Day(df[n].timestamp)
             /\ {Day(t) : t \in TimestampsOf(df)} = {Day(t) : t \in TimestampsOf(joined)}
             /\ \A n \in 1 .. Len(df) :
                   LET R == DayRows(Day(df[n].timestamp))
                       first == CHOOSE i \in R : \A j \in R : i <= j
                       last == CHOOSE i \in R : \A j \in R : i >= j
                   IN  /\ df[n].open = joined[first].open
                       /\ df[n].close = joined[last].close
                       /\ df[n].market_cap = joined[last].market_cap
                       /\ \E i \in R : df[n].high = joined[i].high
                       /\ \A i \in R : df[n].high.v >= joined[i].high.v
                       /\ \E i \in R : df[n].low = joined[i].low
                       /\ \A i \in R : df[n].low.v <= joined[i].low.v
                       /\ df[n].volume = Num(VolumeSum(R))
        ELSE df = joined

\* C12 witness: a range of at most 90 days with two points on day 0
\* (closes 100 and 105, volumes 5 and 7), none on day 1 and one on day 2
\* gave two points, the first with open 100, close 105 and volume 12
C12_Witness ==
    /\ BuiltDone
    /\ req_days <= ResampleMaxDays
    /\ TimestampsOf(joined) = {0, 1, 4}
    /\ joined[1].close = Num(100) /\ joined[2].close = Num(105)
    /\ joined[1].volume = Num(5) /\ joined[2].volume = Num(7)
    /\ Len(df) = 2
    /\ df[1].open = Num(100) /\ df[1].close = Num(105) /\ df[1].volume = Num(12)
    /\ Day(df[2].timestamp) = 2

\* C22 (as claimed): the frame get_market_data returns has strictly
\* increasing, hence pairwise distinct, timestamps, whatever the order and
\* the repetitions of the provider series, with the daily resampling and
\* without it
C22_TimestampsStrictlyIncreasing ==
    BuiltDone =>
        \A m, n \in 1 .. Len(df) : m < n => df[m].timestamp < df[n].timestamp

\* the half of C22 that holds: a range of at most 90 days is resampled,
\* and the daily bins are strictly increasing whatever the order of arrival
C22_ResampledStrictlyIncreasing ==
    (BuiltDone /\ req_days <= ResampleMaxDays) =>
        \A m, n \in 1 .. Len(df) : m < n => df[m].timestamp < df[n].timestamp

\* without the resampling the frame keeps the order and the repetitions of
\* the OHLC rows: it is the join, which follows its left operand
C22_LongRangeKeepsArrivalOrder ==
    (BuiltDone /\ req_days > ResampleMaxDays) =>
        /\ df = joined
        /\ \A n \in 1 .. Len(df) - 1 :
              \E a, b \in 1 .. Len(raw_ohlc) :
                 /\ a <= b
                 /\ raw_ohlc[a].timestamp = df[n].timestamp
                 /\ raw_ohlc[b].timestamp = df[n + 1].timestamp

(***************************************************************************)
(* Claims about the indicators (SpecSignals).                              *)
(***************************************************************************)
\* calculate_signals has returned
Computed == spc \in {"signals", "formatted"}

\* the n-th cell of an indicator is a number
Defined(k, n) == signals[k].values[n] # NaN

\* C13: for a close series of any length, sma20 and both bands have a
\* value exactly from the 20th point on, macd exactly from the 26th on,
\* signal_line and histogram exactly at the points where at least 9 macd
\* values exist; every earlier cell is NaN, none is a number such as zero
C13_WarmUpLengths ==
    Computed =>
        \A k \in SignalNames \ {"rsi"} :
            /\ Len(signals[k].values) = Len(close.values)
            /\ \A n \in 1 .. Len(close.values) :
                  Defined(k, n) <=>
                      CASE k \in {"sma20", "upper_band", "lower_band"} -> n >= 20
                        [] k = "macd" -> n >= 26
                        [] OTHER ->
                             Cardinality({m \in 1 .. n : Defined("macd", m)}) >= 9

\* C13 witness: on a series of at least 34 points sma20 starts at the 20th,
\* macd at the 26th and signal_line at the 34th
C13_Witness ==
    /\ Computed
    /\ Len(close.values) >= 34
    /\ ~Defined("sma20", 19) /\ Defined("sma20", 20)
    /\ ~Defined("macd", 25) /\ Defined("macd", 26)
    /\ ~Defined("signal_line", 33) /\ Defined("signal_line", 34)
    /\ ~Defined("histogram", 33) /\ Defined("histogram", 34)

\* C13 on the example of the text: a series of 19 points has no sma20
C13_NineteenPointsNoSma ==
    (Computed /\ Len(close.values) = 19) =>
        \A n \in 1 .. 19 : ~Defined("sma20", n)

StrictlyIncreasing(x) == \A n \in 2 .. Len(x) : x[n - 1].n < x[n].n

\* the cell is the number v
IsNumber(cell, v) == cell.t = "frac" /\ cell.n = v * cell.d

\* C14: on a strictly increasing close series of at least 14 points rsi
\* is defined from the 14th point on and is 100 wherever it is defined; the
\* mean loss is 0 there, and the division by it gives an infinity, which
\* is no exception
C14_RsiOfRisingSeries ==
    (Computed /\ StrictlyIncreasing(close.values) /\ Len(close.values) >= 14) =>
        \A n \in 1 .. Len(close.values) :
            /\ n >= 14 => Defined("rsi", n)
            /\ Defined("rsi", n) => IsNumber(signals.rsi.values[n], 100)

\* C14 witness: a strictly increasing series with unequal steps, longer
\* than 14 points, whose rsi is 100 at the 14th and at the last point
C14_Witness ==
    /\ Computed
    /\ StrictlyIncreasing(close.values)
    /\ Len(close.values) > 14
    /\ close.values[3].n - close.values[2].n # close.values[2].n - close.values[1].n
    /\ IsNumber(signals.rsi.values[14], 100)
    /\ IsNumber(signals.rsi.values[Len(close.values)], 100)

\* the position of timestamp t in the frame
PositionOf(t) == CHOOSE n \in 1 .. Len(close.index) : close.index[n] = t

\* the points an indicator needs before its lookback window is complete
WarmUp(k) ==
    CASE k = "rsi" -> 14
      [] k \in {"sma20", "upper_band", "lower_band"} -> 20
      [] k = "macd" -> 26
      [] OTHER -> 26 + 9 - 1

\* C15: every timestamp of every indicator map of the response is a
\* timestamp of the frame at which the lookback window of the indicator
\* was complete, its value is a number, and a timestamp where the
\* indicator is undefined is not in the map
C15_OnlyCompleteWindows ==
    spc = "formatted" =>
        \A k \in SignalNames :
            /\ \A t \in DOMAIN formatted_signals[k] :
                  /\ \E n \in 1 .. Len(close.index) : close.index[n] = t
                  /\ PositionOf(t) >= WarmUp(k)
                  /\ formatted_signals[k][t] \notin {NaN, None}
                  /\ formatted_signals[k][t] = signals[k].values[PositionOf(t)]
            /\ \A n \in 1 .. Len(close.index) :
                  ~Defined(k, n) => close.index[n] \notin DOMAIN formatted_signals[k]

\* C15 witness: a response for 35 points or more whose sma20 map starts at
\* the 20th timestamp, whose rsi map starts at the 14th and whose
\* signal_line map is not empty
C15_Witness ==
    /\ spc = "formatted"
    /\ Len(close.index) >= 35
    /\ close.index[20] \in DOMAIN formatted_signals.sma20
    /\ close.index[19] \notin DOMAIN formatted_signals.sma20
    /\ close.index[14] \in DOMAIN formatted_signals.rsi
    /\ close.index[13] \notin DOMAIN formatted_signals.rsi
    /\ DOMAIN formatted_signals.signal_line # {}

\* avg_loss of calculate_signals on the close column of the request
AvgLoss == RollingMean(Loss(Diff(close.values)), 14, 14)

\* avg_gain of calculate_signals on the close column of the request
AvgGain == RollingMean(Gain(Diff(close.values)), 14, 14)

\* the n-th cell is the number zero
IsZero(cell) == cell.t = "frac" /\ cell.n = 0

\* C21 (as claimed): wherever the 14-period average loss is 0 over a full
\* window, on strictly increasing closes and on constant closes alike, rsi
\* is defined and equal to 100
C21_RsiIs100WhenNoLoss ==
    Computed =>
        \A n \in 1 .. Len(close.values) :
            IsZero(AvgLoss[n]) =>
                Defined("rsi", n) /\ IsNumber(signals.rsi.values[n], 100)

\* what the code does: with no loss in the window rsi is 100 when some
\* close rose, and NaN, hence absent from the response, when none did
\* (0 / 0); no division raises
C21_RsiIs100OnlyWithSomeGain ==
    Computed =>
        \A n \in 1 .. Len(close.values) :
            IsZero(AvgLoss[n]) =>
                IF IsZero(AvgGain[n])
                THEN /\ ~Defined("rsi", n)
                     /\ spc = "formatted" => close.index[n] \notin DOMAIN formatted_signals.rsi
                ELSE Defined("rsi", n) /\ IsNumber(signals.rsi.values[n], 100)

(***************************************************************************)
(* Claims about concurrent calls of get_market_data (SpecConcurrent).      *)
(***************************************************************************)
\* the entries built from a fetch for the symbol
ProducedFor(symbol) == {p.value : p \in {q \in produced : q.symbol = symbol}}

\* the value is a whole entry: a defined price, the name of a provider of
\* the chain and the time it was stored
Complete(v) ==
    /\ v.t = "entry"
    /\ v.price # None
    /\ v.provider \in {ProviderChain[i] : i \in 1 .. Len(ProviderChain)}
    /\ v.timestamp \in 0 .. now

\* every value a call returned, and every value the cache holds, is a
\* whole entry built from a fetch for its own key; the cache holds at most
\* one entry per key
C23_ValuesProducedForKey ==
    /\ \A r \in Requests :
          (reqs[r].ret.kind = "return" /\ reqs[r].ret.value # None) =>
              /\ Complete(reqs[r].ret.value)
              /\ reqs[r].ret.value \in ProducedFor(ReqSymbols[r])
              /\ reqs[r].ret.value.price = QuoteOf(ReqSymbols[r])
    /\ \A n \in 1 .. Len(cache) :
          /\ Complete(cache[n].value)
          /\ \E symbol \in {"bitcoin", "ethereum"} :
                cache[n].key = FbCacheKey(symbol) /\ cache[n].value \in ProducedFor(symbol)
    /\ \A m, n \in 1 .. Len(cache) : cache[m].key = cache[n].key => m = n

\* C23 (as claimed): under every interleaving of the concurrent calls for
\* one key, each call that has ended returned: a whole entry built from a
\* fetch for that key (or the unexpired entry cached for it), or None after
\* the last provider; and the cache holds for the key nothing or one such
\* entry
C23_EveryCallReturnsProduced ==
    /\ C23_ValuesProducedForKey
    /\ \A r \in Requests :
          reqs[r].pc = "done" =>
              /\ reqs[r].ret.kind = "return"
              /\ reqs[r].ret.value = None => reqs[r].prov = Len(ProviderChain)

\* what the code does: a call that ended returned as C23 says, or raised
\* the KeyError of a read of an entry that expired after the membership
\* test of the same call (an entry built for the key has expired)
C23_ReturnsProducedOrRaisesKeyError ==
    /\ C23_ValuesProducedForKey
    /\ \A r \in Requests :
          reqs[r].pc = "done" =>
              \/ /\ reqs[r].ret.kind = "return"
                 /\ reqs[r].ret.value = None => reqs[r].prov = Len(ProviderChain)
              \/ /\ reqs[r].ret = Raised("KeyError")
                 /\ \E v \in ProducedFor(ReqSymbols[r]) : v.timestamp + TTL <= now

\* both calls missed, both fetched, and the call that stored first
\* returned the entry the other call stored after it
C23_DuplicateFetchSeen ==
    /\ \A r \in Requests : reqs[r].pc = "done" /\ reqs[r].ret.kind = "return"
    /\ Cardinality(ProducedFor("bitcoin")) = 2
    /\ reqs[1].ret.value = reqs[2].ret.value
    /\ ~reqs[1].ret.cached /\ ~reqs[2].ret.cached

(***************************************************************************)
(* Claims about the outbound calls (SpecOutbound).                         *)
(***************************************************************************)
\* C25 (as claimed): every outbound call of the fetch paths is bounded by
\* a per-call timeout: a call that is waiting passed a timeout and has not
\* waited longer than it, so a provider that never answers cannot keep the
\* request from completing
C25_EveryCallBounded ==
    outbound.state = "waiting" =>
        outbound.timeout # NoTimeout /\ outbound.elapsed < outbound.timeout

\* the part of C25 that holds: the calls of the realtime adapters, of the
\* fallback adapters and of the CoinGecko client of app.py end at their
\* timeout at the latest
C25_AdapterCallsBounded ==
    (outbound.state = "waiting" /\ outbound.site[2] \notin
        {"get_supported_coins", "get_supported_exchanges"}) =>
            outbound.timeout # NoTimeout /\ outbound.elapsed < outbound.timeout

(***************************************************************************)
(* Claims about the TTL cache (SpecCache).                                 *)
(***************************************************************************)
\* the get that just returned read a key whose latest set is neither
\* cleared nor evicted for capacity
GetOfSetKey == cs.op = "get" /\ lastSet[cs.key].set

\* C7: a get(k) issued before the expiry of the entry, with no clear_all
\* and no eviction since the most recent set(k, v), returns that v: never
\* the value of an earlier set on k nor the value set under another key
C7_GetReturnsLatestSet ==
    (GetOfSetKey /\ now < lastSet[cs.key].at + TTL)
        => cs.ret = lastSet[cs.key].value

\* C7 witness: a get returned the value 2 set under its key in the same
\* instant, while another key holds a live entry with the value 1
C7_Witness ==
    /\ GetOfSetKey
    /\ lastSet[cs.key].at = now /\ now > 0
    /\ cs.ret = Num(2)
    /\ \E j \in Keys \ {cs.key} :
          TTLContains(store, j, now) /\ LinkOf(store, j).value = Num(1)

\* C8 (as claimed): an entry set at t is returned only strictly before
\* t + ttl, every get at or after t + ttl is a miss, and after such a get
\* the cache no longer holds the expired entry
C8_ExpiredIsMissAndEvicted ==
    GetOfSetKey =>
        /\ (cs.ret # None => now < lastSet[cs.key].at + TTL)
        /\ (now >= lastSet[cs.key].at + TTL =>
                cs.ret = None /\ cs.key \notin LinkKeys(store))

\* the part of C8 the cache does keep: no stale hit
C8_NoStaleHit ==
    GetOfSetKey =>
        /\ (cs.ret # None => now < lastSet[cs.key].at + TTL)
        /\ (now >= lastSet[cs.key].at + TTL => cs.ret = None)

====
